---- MODULE Spec2Model ----
(***************************************************************************)
(* The canvas interaction engine of the Editor component                   *)
(* (src/unnamed/part_000, lines 1191-1801): the element collection, the    *)
(* selection, the tool, the zoom scale and the interaction session held in *)
(* interactionRef, driven by pointer, keyboard and timer events.           *)
(* Around it the App component (src/types.ts) with its store               *)
(* (src/unnamed/part_001): the documents, the file tree, the active page   *)
(* whose Editor is mounted, and the state kept in localStorage.            *)
(*                                                                         *)
(* Every event handler is one atomic step: React commits the state updates *)
(* of a handler (and refreshes selectedIdsRef) before the next event is    *)
(* handled, so a handler reads the state its predecessor left.             *)
(*                                                                         *)
(* Numbers.  The scale is kept in tenths (ScaleOne = 1.0).  Pointer events *)
(* are drawn at the screen positions of a grid of canvas points, so that   *)
(* every division by the scale that the code performs is exact; a step     *)
(* whose division would not be exact is not enumerated.                    *)
(*                                                                         *)
(* Optional fields (width, height, selectionBox) are sequences of length   *)
(* 0 or 1: <<>> is JavaScript's undefined / null, <<v>> is the value v.    *)
(***************************************************************************)
EXTENDS Integers, Sequences, FiniteSets, TLC

VARIABLES
    elements,      \* useState<CanvasElement[]>: the ordered element collection
    tool,          \* useState<Tool>
    scale,         \* useState(1): the zoom factor, in tenths
    selectedIds,   \* useState<Set<string>> (selectedIdsRef mirrors it)
    slashMenu,     \* useState: "null" or the targetId of the open menu
    selectionBox,  \* useState: <<>> or <<[x, y, width, height]>>
    interaction,   \* interactionRef.current: the session record
    activeColor,   \* useState('#000000'): the color of the picker
    timers,        \* ids whose 50 ms select-after-create timer is pending
    nextId,        \* how many ids generateId has handed out
    nEvents,       \* number of events handled so far (history)
    escaped,       \* the mode in which Escape was pressed, "IDLE" when a
                   \* pointer-down or pointer-up has followed it (history)
    saveTimer,     \* the pending auto-save timeouts, oldest first: of each the
                   \* elements its closure captured
    onSave,        \* the onSave prop: the App render that made the closure
    state,         \* App, useState<AppState | null>: <<>> or <<the AppState>>
    currentDocId,  \* App, useState<string | null>
    activePageId,  \* App, useState<string | null>: the key of the Editor
    storage,       \* localStorage under STORAGE_KEY: <<>> or <<the text>>
    mountedFor,    \* the page the mounted Editor was mounted for (history)
    lost,          \* the pages whose Editor was unmounted while it held a
                   \* change not yet passed to onSave (history)
    savesSinceChange \* onSave calls since the collection last changed, -1
                   \* while it has not changed since the mount (history)

progVars == <<elements, tool, scale, selectedIds, slashMenu, selectionBox,
              interaction, timers, nextId>>
appVars == <<state, currentDocId, activePageId, storage>>
saveVars == <<saveTimer, onSave, state, savesSinceChange>>
vars == <<elements, tool, scale, selectedIds, slashMenu, selectionBox,
          interaction, timers, nextId, nEvents, escaped,
          saveTimer, onSave, savesSinceChange, activeColor,
          state, currentDocId, activePageId, storage, mountedFor, lost>>

(***************************************************************************)
(* Bounds of the model.                                                    *)
(***************************************************************************)
MaxEvents == 4

(***************************************************************************)
(* Constants of the program.                                               *)
(***************************************************************************)
ScaleOne == 10
ScaleMin == 1
ScaleMax == 30
ZoomStep == 1
MinSize == 20
TextPadding == 16
FallbackExtent == 10
TextHitWidth == 300
TextHitHeight == 50
TextWidth == 400
CodeWidth == 300
CodeHeight == 150
ExpandableWidth == 300
ContainerLeft == 256
ContainerTop == 56
TextMinHeight == 50

Null == "null"
\* COLORS, the swatches of the picker (two of the eight), and the initial one
Colors == {"#000000", "#ef4444"}
DefaultColor == "#000000"

Tools == {"SELECT", "TEXT", "RECT", "CIRCLE", "DRAW", "CODE", "EXPANDABLE", "ERASER"}
Modes == {"IDLE", "CREATING", "MOVING", "BOX_SELECT", "ERASING", "RESIZING"}
Handles == {"nw", "n", "ne", "e", "se", "s", "sw", "w"}

\* The ids generateId hands out, in order; "t1", "r1" are ids of a stored page.
IdPool == <<"g1", "g2", "g3", "g4", "g5", "g6", "g7", "g8",
            "g9", "g10", "g11", "g12", "g13", "g14", "g15", "g16">>

(***************************************************************************)
(* Inputs: the canvas points under the pointer, DOM measurements.          *)
(***************************************************************************)
Points == { [x |-> 50, y |-> 50], [x |-> 150, y |-> 120], [x |-> 100, y |-> 10],
            [x |-> 250, y |-> 130] }
\* contentNode.scrollHeight of a text element, as measured during a resize
ScrollHeights == {40, 90}
\* the layout height of an element whose height is content-determined
DomHeights == {50, 80}

(***************************************************************************)
(* Helpers.                                                                *)
(***************************************************************************)
Min(a, b) == IF a < b THEN a ELSE b
Max(a, b) == IF a > b THEN a ELSE b
Abs(a) == IF a < 0 THEN 0 - a ELSE a

Some(v) == <<v>>
None == <<>>
\* JavaScript truthiness of an optional number: undefined and 0 are falsy
Truthy(o) == o # <<>> /\ o[1] # 0
\* JavaScript  o || d
OrElse(o, d) == IF Truthy(o) THEN o[1] ELSE d

\* resizeHandle.includes(letter)
HandleIncludes(handle, letter) ==
    CASE letter = "n" -> handle \in {"nw", "n", "ne"}
      [] letter = "s" -> handle \in {"sw", "s", "se"}
      [] letter = "e" -> handle \in {"ne", "e", "se"}
      [] letter = "w" -> handle \in {"nw", "w", "sw"}
      [] OTHER -> FALSE

SeqToSet(s) == { s[i] : i \in 1..Len(s) }
IdsOf(els) == { els[i].id : i \in 1..Len(els) }
\* elements.find(x => x.id === id)
HasEl(els, id) == \E i \in 1..Len(els) : els[i].id = id
FindEl(els, id) == els[CHOOSE i \in 1..Len(els) :
                        els[i].id = id /\ \A j \in 1..(i-1) : els[j].id # id]

(***************************************************************************)
(* Coordinate conversion.                                                  *)
(***************************************************************************)
\* the screen (client) position at which canvas point c is shown
ClientOf(c, s) == [x |-> ContainerLeft + (c.x * s) \div ScaleOne,
                   y |-> ContainerTop + (c.y * s) \div ScaleOne]
\* a / scale for the scale s in tenths
DivScale(a, s) == (a * ScaleOne) \div s
ExactDiv(a, s) == (a * ScaleOne) % s = 0
getMousePos(client, s) == [x |-> DivScale(client.x - ContainerLeft, s),
                           y |-> DivScale(client.y - ContainerTop, s)]

(***************************************************************************)
(* The session record.                                                     *)
(***************************************************************************)
ZeroBounds == [x |-> 0, y |-> 0, width |-> 0, height |-> 0]
NoPositions == [i \in {} |-> [x |-> 0, y |-> 0]]
Session(sx, sy, cid, mode, ip, rh, ib) ==
    [startX |-> sx, startY |-> sy, currentId |-> cid, mode |-> mode,
     initialPositions |-> ip, resizeHandle |-> rh, initialBounds |-> ib]
InitialSession == Session(0, 0, Null, "IDLE", NoPositions, "", ZeroBounds)

(***************************************************************************)
(* Elements.                                                               *)
(***************************************************************************)
Element(id, type, x, y, w, h, pts, content) ==
    [id |-> id, type |-> type, x |-> x, y |-> y, width |-> w, height |-> h,
     points |-> pts, content |-> content, strokeColor |-> None]
\* style: { strokeColor: color, ... }
Styled(el, color) == [el EXCEPT !.strokeColor = Some(color)]

\* The pages the Editor can be mounted on: an empty page, and a stored page
\* holding a text block (resized to width 100, height content-determined) and
\* a rectangle, both created in an earlier session.
StoredPage == << Element("t1", "TEXT", 60, 60, Some(100), None, <<>>, ""),
                 Styled(Element("r1", "RECTANGLE", 200, 100, Some(100), Some(60),
                                <<>>, Null), DefaultColor) >>
InitialPages == { <<>>, StoredPage }

(***************************************************************************)
(* The App state (services/store): documents, the file tree and the        *)
(* content of the pages, kept as maps from ids.                            *)
(***************************************************************************)
\* {}: a map without keys
EmptyMap == [k \in {} |-> Null]
\* Initial Empty State
initialState == [documents |-> EmptyMap, fileNodes |-> EmptyMap, pages |-> EmptyMap]

\* Date.now() at the creation of a document
Now == 1

FileNode(id, type, name, parentId, children) ==
    [id |-> id, type |-> type, name |-> name, parentId |-> parentId,
     children |-> children,
     isOpen |-> IF type = "FOLDER" THEN Some(TRUE) ELSE None]
PageContent(pageId, els) == [pageId |-> Some(pageId), elements |-> els]

\* createDocument(state, name), newState: docId, rootId and pageId are what
\* the three calls of generateId return
createDocument(st, name, docId, rootId, pageId) ==
    [st EXCEPT
       !.documents = (docId :> [id |-> docId, name |-> name,
                                rootNodeId |-> rootId, createdAt |-> Now]) @@ @,
       !.fileNodes = (rootId :> FileNode(rootId, "FOLDER", "Root", Null, << pageId >>))
                     @@ (pageId :> FileNode(pageId, "PAGE", "Untitled Page", rootId, <<>>))
                     @@ @,
       !.pages = (pageId :> PageContent(pageId, <<>>)) @@ @]

\* createFileNode(state, parentId, type, name), newState: nodeId is what
\* generateId returns
createFileNode(st, parentId, type, name, nodeId) ==
    LET parent == st.fileNodes[parentId]
        updatedParent == [parent EXCEPT !.children = Append(@, nodeId)]
    IN [st EXCEPT
          !.fileNodes = (parentId :> updatedParent)
                        @@ (nodeId :> FileNode(nodeId, type, name, parentId, <<>>))
                        @@ @,
          !.pages = IF type = "PAGE"
                    THEN (nodeId :> PageContent(nodeId, <<>>)) @@ @
                    ELSE @]

\* updatePageContent(state, pageId, elements): { ...state.pages[pageId],
\* elements } has no pageId when the map has no such page
updatePageContent(st, pageId, els) ==
    [st EXCEPT !.pages =
        (pageId :> IF pageId \in DOMAIN st.pages
                   THEN [st.pages[pageId] EXCEPT !.elements = els]
                   ELSE [pageId |-> None, elements |-> els]) @@ @]

(***************************************************************************)
(* JSON.stringify and JSON.parse of the App state.  A JSON text is kept as *)
(* the tree of values it spells: an object holds the keys that were        *)
(* written, and a property whose value is undefined is not written.        *)
(***************************************************************************)
JNum(n) == <<"number", n>>
JStr(s) == <<"string", s>>
JBool(b) == <<"boolean", b>>
JNull == <<"null">>
JArr(seq) == <<"array", seq>>
JObj(map) == <<"object", map>>

PointToJSON(pt) == JObj(("x" :> JNum(pt.x)) @@ ("y" :> JNum(pt.y)))
ElementToJSON(el) ==
    JObj(("id" :> JStr(el.id)) @@ ("type" :> JStr(el.type))
         @@ ("x" :> JNum(el.x)) @@ ("y" :> JNum(el.y))
         @@ (IF el.width # None THEN "width" :> JNum(el.width[1]) ELSE EmptyMap)
         @@ (IF el.height # None THEN "height" :> JNum(el.height[1]) ELSE EmptyMap)
         @@ (IF el.content # Null THEN "content" :> JStr(el.content) ELSE EmptyMap)
         @@ (IF el.points # <<>>
             THEN "points" :> JArr([ i \in 1..Len(el.points) |->
                                       PointToJSON(el.points[i]) ])
             ELSE EmptyMap)
         @@ (IF el.strokeColor # None
             THEN "style" :> JObj("strokeColor" :> JStr(el.strokeColor[1]))
             ELSE EmptyMap))
ElementsToJSON(els) == JArr([ i \in 1..Len(els) |-> ElementToJSON(els[i]) ])
PageToJSON(page) ==
    JObj((IF page.pageId # None THEN "pageId" :> JStr(page.pageId[1]) ELSE EmptyMap)
         @@ ("elements" :> ElementsToJSON(page.elements)))
NodeToJSON(node) ==
    JObj(("id" :> JStr(node.id)) @@ ("type" :> JStr(node.type))
         @@ ("name" :> JStr(node.name))
         @@ ("parentId" :> IF node.parentId = Null THEN JNull ELSE JStr(node.parentId))
         @@ ("children" :> JArr([ i \in 1..Len(node.children) |->
                                    JStr(node.children[i]) ]))
         @@ (IF node.isOpen # None THEN "isOpen" :> JBool(node.isOpen[1])
             ELSE EmptyMap))
DocToJSON(doc) ==
    JObj(("id" :> JStr(doc.id)) @@ ("name" :> JStr(doc.name))
         @@ ("rootNodeId" :> JStr(doc.rootNodeId))
         @@ ("createdAt" :> JNum(doc.createdAt)))
\* JSON.stringify(state)
JSONstringify(st) ==
    JObj(("documents" :> JObj([ d \in DOMAIN st.documents |->
                                  DocToJSON(st.documents[d]) ]))
         @@ ("fileNodes" :> JObj([ n \in DOMAIN st.fileNodes |->
                                     NodeToJSON(st.fileNodes[n]) ]))
         @@ ("pages" :> JObj([ p \in DOMAIN st.pages |->
                                 PageToJSON(st.pages[p]) ])))

PointFromJSON(j) == [x |-> j[2]["x"][2], y |-> j[2]["y"][2]]
ElementFromJSON(j) ==
    LET o == j[2] IN
    [id |-> o["id"][2], type |-> o["type"][2], x |-> o["x"][2], y |-> o["y"][2],
     width |-> IF "width" \in DOMAIN o THEN Some(o["width"][2]) ELSE None,
     height |-> IF "height" \in DOMAIN o THEN Some(o["height"][2]) ELSE None,
     points |-> IF "points" \in DOMAIN o
                THEN [ i \in 1..Len(o["points"][2]) |->
                         PointFromJSON(o["points"][2][i]) ]
                ELSE <<>>,
     content |-> IF "content" \in DOMAIN o THEN o["content"][2] ELSE Null,
     strokeColor |-> IF "style" \in DOMAIN o
                     THEN Some(o["style"][2]["strokeColor"][2]) ELSE None]
\* an array read back to front
ElementsFromJSON_Reversed(j) ==
    [ i \in 1..Len(j[2]) |-> ElementFromJSON(j[2][Len(j[2]) + 1 - i]) ]
ElementsFromJSON(j) == [ i \in 1..Len(j[2]) |-> ElementFromJSON(j[2][i]) ]
PageFromJSON(j) ==
    LET o == j[2] IN
    [pageId |-> IF "pageId" \in DOMAIN o THEN Some(o["pageId"][2]) ELSE None,
     elements |-> ElementsFromJSON(o["elements"])]
NodeFromJSON(j) ==
    LET o == j[2] IN
    [id |-> o["id"][2], type |-> o["type"][2], name |-> o["name"][2],
     parentId |-> IF o["parentId"] = JNull THEN Null ELSE o["parentId"][2],
     children |-> [ i \in 1..Len(o["children"][2]) |-> o["children"][2][i][2] ],
     isOpen |-> IF "isOpen" \in DOMAIN o THEN Some(o["isOpen"][2]) ELSE None]
DocFromJSON(j) ==
    LET o == j[2] IN
    [id |-> o["id"][2], name |-> o["name"][2], rootNodeId |-> o["rootNodeId"][2],
     createdAt |-> o["createdAt"][2]]
\* JSON.parse(serialized) of a well-formed text
JSONparse(j) ==
    LET o == j[2] IN
    [documents |-> [ d \in DOMAIN o["documents"][2] |->
                       DocFromJSON(o["documents"][2][d]) ],
     fileNodes |-> [ n \in DOMAIN o["fileNodes"][2] |->
                       NodeFromJSON(o["fileNodes"][2][n]) ],
     pages |-> [ p \in DOMAIN o["pages"][2] |-> PageFromJSON(o["pages"][2][p]) ]]

\* What localStorage holds under STORAGE_KEY: <<>> (nothing) or a text, of
\* which the model keeps whether it is the empty string, whether it is
\* well-formed JSON, and the tree it then spells.
Text(tree) == [empty |-> FALSE, wellFormed |-> TRUE, tree |-> tree]
EmptyText == [empty |-> TRUE, wellFormed |-> FALSE, tree |-> JNull]
BrokenText == [empty |-> FALSE, wellFormed |-> FALSE, tree |-> JNull]

\* loadState(): initialState when nothing (or the empty string) is stored and
\* when JSON.parse throws
loadState(stored) ==
    IF stored = None \/ stored[1].empty THEN initialState
    ELSE IF ~stored[1].wellFormed THEN initialState
    ELSE JSONparse(stored[1].tree)
\* saveState(state): what localStorage holds afterwards
saveState(st) == Some(Text(JSONstringify(st)))

\* App showing the page "p1" of its one document, of which the App state
\* holds the elements els: the state after the mount of the Editor
OneDocument(els) ==
    updatePageContent(createDocument(initialState, "Doc", "d1", "n0", "p1"), "p1", els)
AppOnPage(els) ==
    /\ state = Some(OneDocument(els))
    /\ currentDocId = "d1"
    /\ activePageId = "p1"
    /\ mountedFor = "p1"
    /\ storage = saveState(state[1])
    /\ lost = {}
\* state.pages[activePageId].elements
appPage == state[1].pages[activePageId].elements

Init ==
    /\ elements \in InitialPages
    /\ tool = "SELECT"
    /\ scale = ScaleOne
    /\ selectedIds = {}
    /\ slashMenu = Null
    /\ selectionBox = None
    /\ interaction = InitialSession
    /\ timers = {}
    /\ nextId = 0
    /\ nEvents = 0
    /\ escaped = "IDLE"
    /\ activeColor = DefaultColor
    /\ saveTimer = Some(elements)
    /\ onSave = 0
    /\ AppOnPage(elements)
    /\ savesSinceChange = -1

\* every step handles one event
Counted == /\ nEvents < MaxEvents
           /\ nEvents' = nEvents + 1
\* return () => clearTimeout(timer): the pending timeouts without the one the
\* latest run of the effect set (the last one, timeouts firing in order)
ClearOwn(pending) ==
    IF pending = <<>> THEN <<>> ELSE SubSeq(pending, 1, Len(pending) - 1)
\* an effect without its cleanup: the earlier timeout stays pending
AutoSaveEffect_NoCleanup(left) ==
    saveTimer' = IF elements' # elements \/ onSave' # onSave
                 THEN left \o << elements' >>
                 ELSE left
\* the auto-save effect, deps [elements, onSave], after the commit of a step
\* that left the timeout as `left`: when a dep changed, the cleanup clears the
\* timeout and a new one is set that captures the committed elements
AutoSaveEffect(left) ==
    saveTimer' = IF elements' # elements \/ onSave' # onSave
                 THEN ClearOwn(left) \o << elements' >>
                 ELSE left
\* an event of the Editor was handled: App is not re-rendered
Committed == /\ Counted
           /\ activePageId # Null
           /\ UNCHANGED <<onSave, state, currentDocId, activePageId, storage,
                          mountedFor, lost>>
           /\ AutoSaveEffect(saveTimer)
           /\ savesSinceChange' = IF elements' # elements THEN 0
                                  ELSE savesSinceChange
\* an event other than a click on the color picker was handled
Handled == Committed /\ UNCHANGED activeColor
\* a pointer-down or pointer-up was handled
HandledPointer == Handled /\ escaped' = "IDLE"
\* an event that is neither a pointer-down, a pointer-up nor Escape was handled
HandledOther == Handled /\ UNCHANGED escaped

(***************************************************************************)
(* Element store.                                                          *)
(***************************************************************************)
\* deleteElement: setElements(prev => prev.filter(el => el.id !== id))
DeleteFromElements(els, id) == LET Keep(el) == el.id # id IN SelectSeq(els, Keep)
\* a deleteElement that forgets the selection
DeleteFromSelection_Keep(sel, id) == sel
\* deleteElement: next.delete(id)
DeleteFromSelection(sel, id) == sel \ {id}
\* deleteElement(id)
deleteElement(id) ==
    /\ elements' = DeleteFromElements(elements, id)
    /\ selectedIds' = DeleteFromSelection(selectedIds, id)

(***************************************************************************)
(* Tool palette and zoom.                                                  *)
(***************************************************************************)
\* a palette that ends the session in flight when the tool is switched
SetTool_EndsSession ==
    \E t \in Tools :
        /\ tool' = t
        /\ interaction' = [interaction EXCEPT !.mode = "IDLE"]
        /\ UNCHANGED <<elements, scale, selectedIds, slashMenu, selectionBox,
                       timers, nextId>>
        /\ HandledOther
\* onClick of a ToolButton: setTool(t)
SetTool ==
    \E t \in Tools :
        /\ tool' = t
        /\ UNCHANGED <<elements, scale, selectedIds, slashMenu, selectionBox,
                       interaction, timers, nextId>>
        /\ HandledOther

\* a zoom-out that ends the session in flight
ZoomOut_EndsSession ==
    /\ scale' = Max(ScaleMin, scale - ZoomStep)
    /\ interaction' = [interaction EXCEPT !.mode = "IDLE"]
    /\ UNCHANGED <<elements, tool, selectedIds, slashMenu, selectionBox,
                   timers, nextId>>
    /\ HandledOther
\* onClick of the zoom-out button: setScale(Math.max(0.1, scale - 0.1))
ZoomOut ==
    /\ scale' = Max(ScaleMin, scale - ZoomStep)
    /\ UNCHANGED <<elements, tool, selectedIds, slashMenu, selectionBox,
                   interaction, timers, nextId>>
    /\ HandledOther

\* a zoom-in without the upper clamp
ZoomIn_Unclamped ==
    /\ scale' = scale + ZoomStep
    /\ UNCHANGED <<elements, tool, selectedIds, slashMenu, selectionBox,
                   interaction, timers, nextId>>
    /\ HandledOther

ZoomIn ==
    /\ scale' = Min(ScaleMax, scale + ZoomStep)
    /\ UNCHANGED <<elements, tool, selectedIds, slashMenu, selectionBox,
                   interaction, timers, nextId>>
    /\ HandledOther

ZoomReset ==
    /\ scale' = ScaleOne
    /\ UNCHANGED <<elements, tool, selectedIds, slashMenu, selectionBox,
                   interaction, timers, nextId>>
    /\ HandledOther

(***************************************************************************)
(* Pointer-down on the canvas background.                                  *)
(***************************************************************************)
Buttons == {0, 2}

\* generateId(): the next id of the pool (Math.random is taken to be fresh)
generateId(n) == IdPool[n + 1]

\* element literals whose freehand path starts without its first point
NewElement_NoPoint(id, t, p) ==
    CASE t = "CODE" ->
           Element(id, "CODE", p.x, p.y, Some(CodeWidth), Some(CodeHeight), <<>>,
                   "// Code block")
      [] t = "EXPANDABLE" ->
           Element(id, "EXPANDABLE", p.x, p.y, Some(ExpandableWidth), None, <<>>,
                   "Toggle Section")
      [] t = "TEXT" ->
           Element(id, "TEXT", p.x, p.y, Some(TextWidth), None, <<>>, "")
      [] t = "DRAW" ->
           Styled(Element(id, "PATH", 0, 0, None, None, <<>>, Null),
                  activeColor)
      [] t = "RECT" ->
           Styled(Element(id, "RECTANGLE", p.x, p.y, Some(0), Some(0), <<>>, Null),
                  activeColor)
      [] t = "CIRCLE" ->
           Styled(Element(id, "CIRCLE", p.x, p.y, Some(0), Some(0), <<>>, Null),
                  activeColor)
\* the element literal handleContainerPointerDown builds for the tool
NewElement(id, t, p) ==
    CASE t = "CODE" ->
           Element(id, "CODE", p.x, p.y, Some(CodeWidth), Some(CodeHeight), <<>>,
                   "// Code block")
      [] t = "EXPANDABLE" ->
           Element(id, "EXPANDABLE", p.x, p.y, Some(ExpandableWidth), None, <<>>,
                   "Toggle Section")
      [] t = "TEXT" ->
           Element(id, "TEXT", p.x, p.y, Some(TextWidth), None, <<>>, "")
      [] t = "DRAW" ->
           Styled(Element(id, "PATH", 0, 0, None, None, <<[x |-> p.x, y |-> p.y]>>, Null),
                  activeColor)
      [] t = "RECT" ->
           Styled(Element(id, "RECTANGLE", p.x, p.y, Some(0), Some(0), <<>>, Null),
                  activeColor)
      [] t = "CIRCLE" ->
           Styled(Element(id, "CIRCLE", p.x, p.y, Some(0), Some(0), <<>>, Null),
                  activeColor)

\* handleContainerPointerDown(e), e on the background at canvas point p, when
\* the call of generateId() at line 1484 returns newId
handleContainerPointerDownId(p, shift, button, newId) ==
    IF tool \notin {"SELECT", "ERASER"} /\ button # 0
    THEN UNCHANGED progVars
    ELSE IF tool = "SELECT"
    THEN /\ interaction' = Session(p.x, p.y, Null, "BOX_SELECT", NoPositions, "",
                                   ZeroBounds)
         /\ selectionBox' = Some([x |-> p.x, y |-> p.y, width |-> 0, height |-> 0])
         /\ selectedIds' = IF shift THEN selectedIds ELSE {}
         /\ slashMenu' = Null
         /\ UNCHANGED <<elements, tool, scale, timers, nextId>>
    ELSE IF tool = "ERASER"
    THEN /\ interaction' = Session(p.x, p.y, Null, "ERASING", NoPositions, "",
                                   ZeroBounds)
         /\ UNCHANGED <<elements, tool, scale, selectedIds, slashMenu,
                        selectionBox, timers, nextId>>
    ELSE /\ nextId < Len(IdPool)
         /\ LET id == newId
                isDragCreation == tool \in {"RECT", "CIRCLE", "DRAW"}
            IN /\ interaction' = Session(p.x, p.y, id,
                                         IF isDragCreation THEN "CREATING" ELSE "IDLE",
                                         NoPositions, "", ZeroBounds)
               /\ elements' = Append(elements, NewElement(id, tool, p))
               \* setTimeout(() => setSelectedIds(new Set([newEl.id])), 50)
               /\ timers' = IF isDragCreation THEN timers ELSE timers \cup {id}
         /\ nextId' = nextId + 1
         /\ UNCHANGED <<tool, scale, selectedIds, slashMenu, selectionBox>>

\* handleContainerPointerDown(e), generateId() returning an id not handed out
\* before
handleContainerPointerDown(p, shift, button) ==
    handleContainerPointerDownId(p, shift, button, generateId(nextId))

\* the element is drawn over canvas point c: a path is a thin stroke, a
\* rectangle or ellipse of zero width or height is not drawn, a block element
\* is drawn from its origin over at least its width and minimum height
Covers(el, c) ==
    /\ el.type # "PATH"
    /\ el.type \in {"RECTANGLE", "CIRCLE"} => (Truthy(el.width) /\ Truthy(el.height))
    /\ c.x >= el.x /\ c.x <= el.x + OrElse(el.width, 0)
    /\ c.y >= el.y
    /\ c.y <= el.y + OrElse(el.height, IF el.type = "TEXT" THEN TextMinHeight ELSE 0)

\* the container receives the pointer-down when no element is under the pointer
ContainerPointerDown ==
    \E c \in Points, shift \in BOOLEAN, button \in Buttons :
        LET p == getMousePos(ClientOf(c, scale), scale) IN
        /\ \A i \in 1..Len(elements) : ~Covers(elements[i], c)
        /\ handleContainerPointerDown(p, shift, button)
        /\ HandledPointer

\* the 50 ms timer of a click-to-place creation fires
SelectTimer ==
    \E id \in timers :
        /\ selectedIds' = {id}
        /\ timers' = timers \ {id}
        /\ UNCHANGED <<elements, tool, scale, slashMenu, selectionBox,
                       interaction, nextId>>
        /\ HandledOther

(***************************************************************************)
(* Pointer-down on an element and on a resize handle.                      *)
(***************************************************************************)
\* initPos: the origin of every element of `els` whose id is in `sel`
SnapshotPositions(els, sel) ==
    [ id \in IdsOf(els) \cap sel |-> [x |-> FindEl(els, id).x, y |-> FindEl(els, id).y] ]

\* a click that always replaces the selection when shift is not held
ClickSelection_Replace(sel, id, shift) ==
    IF shift
    THEN (IF id \in sel THEN sel \ {id} ELSE sel \cup {id})
    ELSE {id}
\* handleElementPointerDown, SELECT: the selection after the click on id
ClickSelection(sel, id, shift) ==
    IF shift
    THEN (IF id \in sel THEN sel \ {id} ELSE sel \cup {id})
    ELSE (IF id \notin sel THEN {id} ELSE sel)
\* handleElementPointerDown, SELECT: currentSelection, computed from
\* selectedIdsRef.current, which still holds the selection before the click
currentSelection(sel, id, shift) ==
    IF shift THEN sel
    ELSE IF id \in sel THEN sel ELSE {id}

\* handleElementPointerDown, SELECT: setActiveColor(element.style.strokeColor)
\* when the element has one
ClickedColor(id) ==
    IF tool = "SELECT" /\ HasEl(elements, id) /\ FindEl(elements, id).strokeColor # None
    THEN FindEl(elements, id).strokeColor[1]
    ELSE activeColor

\* a handler whose eraser branch also opens an ERASING session
handleElementPointerDown_Session(id, client, shift, onInput) ==
    /\ activeColor' = ClickedColor(id)
    /\ IF tool = "ERASER"
       THEN /\ deleteElement(id)
            /\ interaction' = Session(client.x, client.y, Null, "ERASING", NoPositions,
                                      "", ZeroBounds)
            /\ UNCHANGED <<tool, scale, slashMenu, selectionBox, timers, nextId>>
       ELSE IF tool = "SELECT"
       THEN /\ selectedIds' = ClickSelection(selectedIds, id, shift)
            /\ interaction' =
                  IF ~onInput
                  THEN Session(client.x, client.y, id, "MOVING",
                               SnapshotPositions(elements,
                                                 currentSelection(selectedIds, id, shift)),
                               "", ZeroBounds)
                  ELSE interaction
            /\ UNCHANGED <<elements, tool, scale, slashMenu, selectionBox, timers,
                           nextId>>
       ELSE UNCHANGED progVars
\* handleElementPointerDown(e, id): e at screen position client; onInput is
\* isInput && !dragHandle of the event target
handleElementPointerDown(id, client, shift, onInput) ==
    /\ activeColor' = ClickedColor(id)
    /\ IF tool = "ERASER"
       THEN /\ deleteElement(id)
            /\ UNCHANGED <<tool, scale, slashMenu, selectionBox, interaction,
                           timers, nextId>>
       ELSE IF tool = "SELECT"
       THEN /\ selectedIds' = ClickSelection(selectedIds, id, shift)
            /\ interaction' =
                  IF ~onInput
                  THEN Session(client.x, client.y, id, "MOVING",
                               SnapshotPositions(elements,
                                                 currentSelection(selectedIds, id, shift)),
                               "", ZeroBounds)
                  ELSE interaction
            /\ UNCHANGED <<elements, tool, scale, slashMenu, selectionBox, timers,
                           nextId>>
       ELSE UNCHANGED progVars

\* the element is grabbed at its origin corner
ElementPointerDown ==
    \E i \in 1..Len(elements), shift \in BOOLEAN, onInput \in BOOLEAN :
        LET el == elements[i] IN
        /\ handleElementPointerDown(el.id, ClientOf(el, scale), shift, onInput)
        /\ Committed
        /\ escaped' = "IDLE"

\* elements that render ResizeHandles
Resizable(el) == el.type \in {"TEXT", "CODE", "EXPANDABLE", "IMAGE"}

\* a resize start that patches the session record field by field and leaves
\* the snapshot of the session before it in place
handleResizeStart_Patch(id, handle, client, dom) ==
    IF ~HasEl(elements, id)
    THEN UNCHANGED progVars
    ELSE LET el == FindEl(elements, id)
             currentW == OrElse(el.width, dom.width)
             currentH == OrElse(el.height, dom.height)
         IN /\ interaction' =
                  Session(client.x, client.y, id, "RESIZING",
                          interaction.initialPositions, handle,
                          [x |-> el.x, y |-> el.y, width |-> currentW,
                           height |-> currentH])
            /\ UNCHANGED <<elements, tool, scale, selectedIds, slashMenu,
                           selectionBox, timers, nextId>>
\* handleResizeStart(e, id, handle): e at screen position client; dom is the
\* layout size domRect / scale of the element's DOM node
handleResizeStart(id, handle, client, dom) ==
    IF ~HasEl(elements, id)
    THEN UNCHANGED progVars
    ELSE LET el == FindEl(elements, id)
             currentW == OrElse(el.width, dom.width)
             currentH == OrElse(el.height, dom.height)
         IN /\ interaction' =
                  Session(client.x, client.y, id, "RESIZING", NoPositions, handle,
                          [x |-> el.x, y |-> el.y, width |-> currentW,
                           height |-> currentH])
            /\ UNCHANGED <<elements, tool, scale, selectedIds, slashMenu,
                           selectionBox, timers, nextId>>

\* where the handle of an element laid out as (x, y, w, h) is drawn
HandlePoint(el, w, h, handle) ==
    [x |-> IF HandleIncludes(handle, "w") THEN el.x
           ELSE IF HandleIncludes(handle, "e") THEN el.x + w
           ELSE el.x + w \div 2,
     y |-> IF HandleIncludes(handle, "n") THEN el.y
           ELSE IF HandleIncludes(handle, "s") THEN el.y + h
           ELSE el.y + h \div 2]

\* ResizeHandles are rendered for a selected element only
ResizeStart ==
    \E i \in 1..Len(elements), handle \in Handles, domH \in DomHeights :
        LET el == elements[i]
            dom == [width |-> OrElse(el.width, TextWidth),
                    height |-> OrElse(el.height, domH)]
        IN /\ el.id \in selectedIds
           /\ Resizable(el)
           /\ Truthy(el.height) => domH = el.height[1]
           /\ handleResizeStart(el.id, handle,
                                ClientOf(HandlePoint(el, dom.width, dom.height, handle),
                                         scale),
                                dom)
           /\ HandledPointer

\* a creation drag that keeps only the first and the latest point of a path
CreatingMove_LatestPoint(el, startX, startY, p) ==
    IF el.type = "PATH"
    THEN [el EXCEPT !.points = << el.points[1], [x |-> p.x, y |-> p.y] >>]
    ELSE LET width == p.x - startX
             height == p.y - startY
         IN [el EXCEPT !.width = Some(Abs(width)),
                       !.height = Some(Abs(height)),
                       !.x = IF width < 0 THEN p.x ELSE startX,
                       !.y = IF height < 0 THEN p.y ELSE startY]
(***************************************************************************)
(* Pointer-move.                                                           *)
(***************************************************************************)
\* a creation drag that does not normalise a leftward / upward drag
CreatingMove_Unnormalised(el, startX, startY, p) ==
    IF el.type = "PATH"
    THEN [el EXCEPT !.points = Append(el.points, [x |-> p.x, y |-> p.y])]
    ELSE [el EXCEPT !.width = Some(p.x - startX),
                    !.height = Some(p.y - startY),
                    !.x = startX,
                    !.y = startY]
\* handleContainerPointerMove, CREATING: the element under creation after the
\* pointer moved to canvas point p
CreatingMove(el, startX, startY, p) ==
    IF el.type = "PATH"
    THEN [el EXCEPT !.points = Append(el.points, [x |-> p.x, y |-> p.y])]
    ELSE LET width == p.x - startX
             height == p.y - startY
         IN [el EXCEPT !.width = Some(Abs(width)),
                       !.height = Some(Abs(height)),
                       !.x = IF width < 0 THEN p.x ELSE startX,
                       !.y = IF height < 0 THEN p.y ELSE startY]

\* handleContainerPointerMove, BOX_SELECT: the selection rectangle
BoxMove(startX, startY, p) ==
    LET w == p.x - startX
        h == p.y - startY
    IN [x |-> IF w < 0 THEN p.x ELSE startX,
        y |-> IF h < 0 THEN p.y ELSE startY,
        width |-> Abs(w), height |-> Abs(h)]

SetMin(S) == CHOOSE m \in S : \A n \in S : m <= n
SetMax(S) == CHOOSE m \in S : \A n \in S : m >= n

\* a point test with open intervals
EraserHit_Open(el, p) ==
    IF Truthy(el.width) /\ Truthy(el.height)
    THEN /\ p.x > el.x /\ p.x < el.x + el.width[1]
         /\ p.y > el.y /\ p.y < el.y + el.height[1]
    ELSE FALSE
\* handleContainerPointerMove, ERASING: the predicate of elements.find
EraserHit(el, p) ==
    IF Truthy(el.width) /\ Truthy(el.height)
    THEN /\ p.x >= el.x /\ p.x <= el.x + el.width[1]
         /\ p.y >= el.y /\ p.y <= el.y + el.height[1]
    ELSE IF el.type = "PATH" /\ el.points # <<>>
    THEN LET xs == { el.points[i].x : i \in 1..Len(el.points) }
             ys == { el.points[i].y : i \in 1..Len(el.points) }
         IN /\ p.x >= SetMin(xs) + el.x /\ p.x <= SetMax(xs) + el.x
            /\ p.y >= SetMin(ys) + el.y /\ p.y <= SetMax(ys) + el.y
    ELSE IF el.type = "TEXT"
    THEN /\ p.x >= el.x /\ p.x <= el.x + TextHitWidth
         /\ p.y >= el.y /\ p.y <= el.y + TextHitHeight
    ELSE FALSE

\* a search that returns the hit inserted last
FirstHit_Last(els, p) ==
    IF \E i \in 1..Len(els) : EraserHit(els[i], p)
    THEN CHOOSE i \in 1..Len(els) :
            EraserHit(els[i], p) /\ \A j \in (i+1)..Len(els) : ~EraserHit(els[j], p)
    ELSE 0
\* elements.find(el => EraserHit): index of the first hit, 0 when there is none
FirstHit(els, p) ==
    IF \E i \in 1..Len(els) : EraserHit(els[i], p)
    THEN CHOOSE i \in 1..Len(els) :
            EraserHit(els[i], p) /\ \A j \in 1..(i-1) : ~EraserHit(els[j], p)
    ELSE 0

\* a drag that carries every element of the page along
MovingMove_All(el, initialPositions, dx, dy) ==
    IF el.id \in DOMAIN initialPositions
    THEN [el EXCEPT !.x = initialPositions[el.id].x + dx,
                    !.y = initialPositions[el.id].y + dy]
    ELSE [el EXCEPT !.x = el.x + dx, !.y = el.y + dy]
\* a drag that adds the delta to the element's current position
MovingMove_Incremental(el, initialPositions, dx, dy) ==
    IF el.id \in DOMAIN initialPositions
    THEN [el EXCEPT !.x = el.x + dx, !.y = el.y + dy]
    ELSE el
\* handleGlobalMove, MOVING: an element after the pointer moved by (dx, dy)
MovingMove(el, initialPositions, dx, dy) ==
    IF el.id \in DOMAIN initialPositions
    THEN [el EXCEPT !.x = initialPositions[el.id].x + dx,
                    !.y = initialPositions[el.id].y + dy]
    ELSE el

\* handleGlobalMove, RESIZING: minH of the element; scrollHeight is what
\* contentNode.scrollHeight measures
MinHeight(el, scrollHeight) ==
    IF el.type = "TEXT" THEN scrollHeight + TextPadding ELSE MinSize

\* a resize whose east and south handles forget the minimum size
ResizeBounds_Unclamped(ib, handle, dx, dy, minH) ==
    LET effDx == Min(dx, ib.width - MinSize)
        effDy == Min(dy, ib.height - minH)
        newW == IF HandleIncludes(handle, "w") THEN ib.width - effDx
                ELSE IF HandleIncludes(handle, "e") THEN ib.width + dx
                ELSE ib.width
        newX == IF HandleIncludes(handle, "w") THEN ib.x + effDx ELSE ib.x
        newH == IF HandleIncludes(handle, "n") THEN ib.height - effDy
                ELSE IF HandleIncludes(handle, "s") THEN ib.height + dy
                ELSE ib.height
        newY == IF HandleIncludes(handle, "n") THEN ib.y + effDy ELSE ib.y
    IN [x |-> newX, y |-> newY, width |-> newW, height |-> newH]
\* a resize whose west and north handles move the origin by the unclamped delta
ResizeBounds_Drift(ib, handle, dx, dy, minH) ==
    LET effDx == Min(dx, ib.width - MinSize)
        effDy == Min(dy, ib.height - minH)
        newW == IF HandleIncludes(handle, "w") THEN ib.width - effDx
                ELSE IF HandleIncludes(handle, "e") THEN Max(MinSize, ib.width + dx)
                ELSE ib.width
        newX == IF HandleIncludes(handle, "w") THEN ib.x + dx ELSE ib.x
        newH == IF HandleIncludes(handle, "n") THEN ib.height - effDy
                ELSE IF HandleIncludes(handle, "s") THEN Max(minH, ib.height + dy)
                ELSE ib.height
        newY == IF HandleIncludes(handle, "n") THEN ib.y + dy ELSE ib.y
    IN [x |-> newX, y |-> newY, width |-> newW, height |-> newH]
\* handleGlobalMove, RESIZING: the new bounds
ResizeBounds(ib, handle, dx, dy, minH) ==
    LET effDx == Min(dx, ib.width - MinSize)
        effDy == Min(dy, ib.height - minH)
        newW == IF HandleIncludes(handle, "w") THEN ib.width - effDx
                ELSE IF HandleIncludes(handle, "e") THEN Max(MinSize, ib.width + dx)
                ELSE ib.width
        newX == IF HandleIncludes(handle, "w") THEN ib.x + effDx ELSE ib.x
        newH == IF HandleIncludes(handle, "n") THEN ib.height - effDy
                ELSE IF HandleIncludes(handle, "s") THEN Max(minH, ib.height + dy)
                ELSE ib.height
        newY == IF HandleIncludes(handle, "n") THEN ib.y + effDy ELSE ib.y
    IN [x |-> newX, y |-> newY, width |-> newW, height |-> newH]

\* handleGlobalMove, RESIZING: an element after the pointer moved by (dx, dy)
ResizingMove(el, currentId, ib, handle, dx, dy, scrollHeight) ==
    IF el.id # currentId THEN el
    ELSE LET b == ResizeBounds(ib, handle, dx, dy, MinHeight(el, scrollHeight))
         IN [el EXCEPT !.x = b.x, !.y = b.y,
                       !.width = Some(b.width), !.height = Some(b.height)]

\* A pointermove at canvas point c: handleContainerPointerMove when the pointer
\* is inside the canvas container, then handleGlobalMove (window listener).
PointerMoveAt(c, inside, scrollHeight) ==
    LET client == ClientOf(c, scale)
        p == getMousePos(client, scale)
        s == interaction
    IN
    /\ CASE s.mode = "CREATING" /\ inside ->
              LET F(el) == IF el.id # s.currentId THEN el
                           ELSE CreatingMove(el, s.startX, s.startY, p)
              IN /\ elements' = [ i \in 1..Len(elements) |-> F(elements[i]) ]
                 /\ UNCHANGED <<selectedIds, selectionBox>>
         [] s.mode = "BOX_SELECT" /\ inside ->
              /\ selectionBox' = Some(BoxMove(s.startX, s.startY, p))
              /\ UNCHANGED <<elements, selectedIds>>
         [] s.mode = "ERASING" /\ inside ->
              LET hit == FirstHit(elements, p) IN
              IF hit # 0
              THEN /\ deleteElement(elements[hit].id)
                   /\ UNCHANGED selectionBox
              ELSE UNCHANGED <<elements, selectedIds, selectionBox>>
         [] s.mode = "MOVING" ->
              /\ ExactDiv(client.x - s.startX, scale)
              /\ ExactDiv(client.y - s.startY, scale)
              /\ LET dx == DivScale(client.x - s.startX, scale)
                     dy == DivScale(client.y - s.startY, scale)
                     F(el) == MovingMove(el, s.initialPositions, dx, dy)
                 IN elements' = [ i \in 1..Len(elements) |-> F(elements[i]) ]
              /\ UNCHANGED <<selectedIds, selectionBox>>
         [] s.mode = "RESIZING" /\ s.currentId # Null ->
              /\ ExactDiv(client.x - s.startX, scale)
              /\ ExactDiv(client.y - s.startY, scale)
              /\ LET dx == DivScale(client.x - s.startX, scale)
                     dy == DivScale(client.y - s.startY, scale)
                     F(el) == ResizingMove(el, s.currentId, s.initialBounds,
                                           s.resizeHandle, dx, dy, scrollHeight)
                 IN elements' = [ i \in 1..Len(elements) |-> F(elements[i]) ]
              /\ UNCHANGED <<selectedIds, selectionBox>>
         [] OTHER -> UNCHANGED <<elements, selectedIds, selectionBox>>
    /\ UNCHANGED <<tool, scale, slashMenu, interaction, timers, nextId>>

PointerMove ==
    \E c \in Points, inside \in BOOLEAN, scrollHeight \in ScrollHeights :
        /\ PointerMoveAt(c, inside, scrollHeight)
        /\ HandledOther

(***************************************************************************)
(* Pointer-up.                                                             *)
(***************************************************************************)
\* a hit test that also takes elements touching the box along an edge
BoxHits_Closed(els, sb) ==
    { els[i].id : i \in { j \in 1..Len(els) :
        LET el == els[j]
            elW == OrElse(el.width, FallbackExtent)
            elH == OrElse(el.height, FallbackExtent)
        IN /\ el.x <= sb.x + sb.width /\ el.x + elW >= sb.x
           /\ el.y <= sb.y + sb.height /\ el.y + elH >= sb.y } }
\* handleContainerPointerUp: the ids of elements.filter(...) for the box sb
BoxHits(els, sb) ==
    { els[i].id : i \in { j \in 1..Len(els) :
        LET el == els[j]
            elW == OrElse(el.width, FallbackExtent)
            elH == OrElse(el.height, FallbackExtent)
        IN /\ el.x < sb.x + sb.width /\ el.x + elW > sb.x
           /\ el.y < sb.y + sb.height /\ el.y + elH > sb.y } }

\* A pointerup: handleContainerPointerUp when the pointer is released inside
\* the canvas container, then handleGlobalUp (window listener).
PointerUpAt(inside) ==
    /\ IF inside /\ interaction.mode = "BOX_SELECT" /\ selectionBox # None
       THEN /\ selectedIds' = selectedIds \cup BoxHits(elements, selectionBox[1])
            /\ selectionBox' = None
       ELSE IF interaction.mode = "BOX_SELECT"
       THEN /\ selectionBox' = None
            /\ UNCHANGED selectedIds
       ELSE UNCHANGED <<selectedIds, selectionBox>>
    /\ interaction' = [interaction EXCEPT !.mode = "IDLE"]
    /\ UNCHANGED <<elements, tool, scale, slashMenu, timers, nextId>>

PointerUp ==
    \E inside \in BOOLEAN :
        /\ PointerUpAt(inside)
        /\ HandledPointer

(***************************************************************************)
(* Keyboard and slash menu.                                                *)
(***************************************************************************)
\* an Escape that also discards the element being created
KeyEscape_DiscardsCreated ==
    /\ tool' = "SELECT"
    /\ selectedIds' = {}
    /\ slashMenu' = Null
    /\ elements' = IF interaction.mode = "CREATING"
                   THEN DeleteFromElements(elements, interaction.currentId)
                   ELSE elements
    /\ UNCHANGED <<scale, selectionBox, interaction, timers, nextId>>
    /\ Handled
    /\ escaped' = interaction.mode
\* handleKeyDown, e.key === 'Escape'
KeyEscape ==
    /\ tool' = "SELECT"
    /\ selectedIds' = {}
    /\ slashMenu' = Null
    /\ UNCHANGED <<elements, scale, selectionBox, interaction, timers, nextId>>
    /\ Handled
    /\ escaped' = interaction.mode

\* handleKeyDown, e.key === 'Backspace' || e.key === 'Delete'; isEditing says
\* whether document.activeElement is an editable surface
\* a Delete key that removes the selected elements also while a text is edited
handleKeyDelete_IgnoresFocus(isEditing) ==
    /\ IF Cardinality(selectedIds) > 0
       THEN /\ elements' = LET Keep(el) == el.id \notin selectedIds
                           IN SelectSeq(elements, Keep)
            /\ selectedIds' = {}
       ELSE UNCHANGED <<elements, selectedIds>>
    /\ UNCHANGED <<tool, scale, slashMenu, selectionBox, interaction, timers,
                   nextId>>
\* handleKeyDown, e.key === 'Backspace' || e.key === 'Delete'
handleKeyDelete(isEditing) ==
    /\ IF ~isEditing /\ Cardinality(selectedIds) > 0
       THEN /\ elements' = LET Keep(el) == el.id \notin selectedIds
                           IN SelectSeq(elements, Keep)
            /\ selectedIds' = {}
       ELSE UNCHANGED <<elements, selectedIds>>
    /\ UNCHANGED <<tool, scale, slashMenu, selectionBox, interaction, timers,
                   nextId>>

KeyDelete ==
    \E isEditing \in BOOLEAN :
        /\ handleKeyDelete(isEditing)
        /\ HandledOther

\* handleTextKeyUp, e.key === '/' typed in the editable surface of element id
TextKeyUpSlash ==
    \E i \in 1..Len(elements) :
        /\ elements[i].type \in {"TEXT", "EXPANDABLE"}
        /\ slashMenu' = elements[i].id
        /\ UNCHANGED <<elements, tool, scale, selectedIds, selectionBox,
                       interaction, timers, nextId>>
        /\ HandledOther

\* handleSlashSelect / SlashMenu onClose: setSlashMenu(null)
SlashMenuClose ==
    /\ slashMenu # Null
    /\ slashMenu' = Null
    /\ UNCHANGED <<elements, tool, scale, selectedIds, selectionBox,
                   interaction, timers, nextId>>
    /\ HandledOther

Next ==
    \/ PointerMove
    \/ PointerUp
    \/ SetTool
    \/ ZoomOut
    \/ ZoomIn
    \/ ZoomReset
    \/ ContainerPointerDown
    \/ SelectTimer
    \/ ElementPointerDown
    \/ ResizeStart
    \/ KeyEscape
    \/ KeyDelete
    \/ TextKeyUpSlash
    \/ SlashMenuClose

Spec == Init /\ [][Next]_vars

(***************************************************************************)
(* Auto-save.                                                              *)
(***************************************************************************)

\* handleSavePage(elements) of the render of App in which activePageId was
\* pageId
handleSavePage(pageId, els) ==
    IF pageId = Null THEN UNCHANGED state
    ELSE state' = Some(updatePageContent(state[1], pageId, els))

\* The auto-save timeout fires: onSave(elements) is App.handleSavePage, whose
\* setState stores a new state object; App re-renders and hands the Editor a
\* new handleSavePage closure, and the Editor's effects run after the commit.
SaveTimerFires ==
    /\ saveTimer # None
    /\ handleSavePage(activePageId, saveTimer[1])
    /\ storage' = saveState(state'[1])
    /\ onSave' = onSave + 1
    /\ UNCHANGED <<progVars, currentDocId, activePageId, mountedFor, lost>>
    /\ AutoSaveEffect(Tail(saveTimer))
    /\ savesSinceChange' = IF savesSinceChange < 0 THEN savesSinceChange
                           ELSE savesSinceChange + 1
    /\ Counted
    /\ UNCHANGED <<escaped, activeColor>>

NextSave ==
    \/ Next
    \/ SaveTimerFires

\* The Editor mounted by App, with the auto-save timeout.
SpecSave == Init /\ [][NextSave]_vars

\* The Editor after any clicks on the tool palette.
InitPalette ==
    /\ elements \in InitialPages
    /\ tool \in Tools
    /\ scale = ScaleOne
    /\ selectedIds = {}
    /\ slashMenu = Null
    /\ selectionBox = None
    /\ interaction = InitialSession
    /\ timers = {}
    /\ nextId = 0
    /\ nEvents = 0
    /\ escaped = "IDLE"
    /\ activeColor = DefaultColor
    /\ saveTimer = Some(elements)
    /\ onSave = 0
    /\ AppOnPage(elements)
    /\ savesSinceChange = -1

SpecPalette == InitPalette /\ [][Next]_vars

(***************************************************************************)
(* Patches and the color picker.                                           *)
(***************************************************************************)
\* what typing leaves in a content-editable block or the code textarea
Contents == {"a", "a/"}

\* an updateElement that moves the patched element to the end
updateElement_Reorder(id, content) ==
    LET Other(el) == el.id # id
        Same(el) == el.id = id
        patched == SelectSeq(elements, Same)
    IN elements' = SelectSeq(elements, Other) \o
                   [ i \in 1..Len(patched) |-> [patched[i] EXCEPT !.content = content] ]
\* updateElement(id, { content }):
\* setElements(prev => prev.map(el => el.id === id ? {...el, ...updates} : el))
updateElement(id, content) ==
    elements' = [ i \in 1..Len(elements) |->
                    IF elements[i].id = id
                    THEN [elements[i] EXCEPT !.content = content]
                    ELSE elements[i] ]

\* the ids a late call can name: one of the stored page, one handed out
CallIds == {"t1", "g1"}

\* updateElement(id, ...) from a handler that outlived its element
LateUpdate ==
    \E id \in CallIds \ IdsOf(elements), content \in Contents :
        /\ updateElement(id, content)
        /\ UNCHANGED <<tool, scale, selectedIds, slashMenu, selectionBox,
                       interaction, timers, nextId>>
        /\ HandledOther

\* deleteElement(id) for an element that is already gone
LateDelete ==
    \E id \in CallIds \ IdsOf(elements) :
        /\ deleteElement(id)
        /\ UNCHANGED <<tool, scale, slashMenu, selectionBox, interaction, timers,
                       nextId>>
        /\ HandledOther

\* handleResizeStart(e, id, handle) for an element that is already gone
LateResizeStart ==
    \E id \in CallIds \ IdsOf(elements), handle \in Handles :
        /\ handleResizeStart(id, handle, ClientOf([x |-> 0, y |-> 0], scale),
                             [width |-> 0, height |-> 0])
        /\ HandledPointer

NextLate ==
    \/ LateUpdate
    \/ LateDelete
    \/ LateResizeStart
    \/ PointerMove
    \/ PointerUp
    \/ SetTool
    \/ ContainerPointerDown
    \/ SelectTimer
    \/ ElementPointerDown
    \/ ResizeStart
    \/ KeyDelete

\* The Editor mounted on the empty page, right after a text block was placed
\* at (50,50) with the TEXT tool (its select timer is pending) and after any
\* clicks on the tool palette.
InitPlaced ==
    /\ elements = << NewElement(generateId(0), "TEXT", [x |-> 50, y |-> 50]) >>
    /\ tool \in Tools
    /\ scale = ScaleOne
    /\ selectedIds = {}
    /\ slashMenu = Null
    /\ selectionBox = None
    /\ interaction = Session(50, 50, generateId(0), "IDLE", NoPositions, "",
                             ZeroBounds)
    /\ timers = {generateId(0)}
    /\ nextId = 1
    /\ nEvents = 0
    /\ escaped = "IDLE"
    /\ activeColor = DefaultColor
    /\ saveTimer = Some(elements)
    /\ onSave = 0
    /\ AppOnPage(<<>>)
    /\ savesSinceChange = 0

\* The Editor with calls that name an element no longer in the collection.
SpecLate == InitPlaced /\ [][NextLate]_vars

\* onInput / onChange of a text block, code block or collapsible section
TextInput ==
    \E i \in 1..Len(elements), content \in Contents :
        /\ elements[i].type \in {"TEXT", "CODE", "EXPANDABLE"}
        /\ updateElement(elements[i].id, content)
        /\ UNCHANGED <<tool, scale, selectedIds, slashMenu, selectionBox,
                       interaction, timers, nextId>>
        /\ HandledOther

\* applyColorToSelection(color); highlighted: text is highlighted inside the
\* focused block, so that a text block is colored through execCommand only
applyColorToSelection(color, highlighted) ==
    /\ activeColor' = color
    /\ elements' =
         IF selectedIds # {}
         THEN [ i \in 1..Len(elements) |->
                  LET el == elements[i] IN
                  IF el.id \in selectedIds
                  THEN IF el.type = "TEXT"
                       THEN IF highlighted THEN el ELSE Styled(el, color)
                       ELSE IF el.type = "EXPANDABLE"
                       THEN el
                       ELSE IF el.type \in {"RECTANGLE", "CIRCLE", "PATH"}
                       THEN Styled(el, color)
                       ELSE el
                  ELSE el ]
         ELSE elements

\* a click on a swatch of the color picker
ColorPick ==
    \E color \in Colors, highlighted \in BOOLEAN :
        /\ applyColorToSelection(color, highlighted)
        /\ UNCHANGED <<tool, scale, selectedIds, slashMenu, selectionBox,
                       interaction, timers, nextId>>
        /\ Committed
        /\ UNCHANGED escaped

NextEdit ==
    \/ PointerMove
    \/ PointerUp
    \/ SetTool
    \/ ContainerPointerDown
    \/ ElementPointerDown
    \/ ResizeStart
    \/ KeyDelete
    \/ TextInput
    \/ ColorPick

\* The Editor at scale 1 with typing and the color picker.
SpecEdit == Init /\ [][NextEdit]_vars

\* A stored page for the selection box: a rectangle placed by a click without
\* a drag (zero width and height), a code block and a freehand stroke.
BoxPage == << Styled(Element("z1", "RECTANGLE", 45, 100, Some(0), Some(0), <<>>, Null),
                     DefaultColor),
              Element("c1", "CODE", 150, 50, Some(CodeWidth), Some(CodeHeight), <<>>,
                      "// Code block"),
              Styled(Element("p1", "PATH", 0, 0, None, None,
                             << [x |-> 60, y |-> 60], [x |-> 90, y |-> 100] >>, Null),
                     DefaultColor) >>

InitBox ==
    /\ elements \in {StoredPage, BoxPage}
    /\ tool = "SELECT"
    /\ scale = ScaleOne
    /\ selectedIds = {}
    /\ slashMenu = Null
    /\ selectionBox = None
    /\ interaction = InitialSession
    /\ timers = {}
    /\ nextId = 0
    /\ nEvents = 0
    /\ escaped = "IDLE"
    /\ activeColor = DefaultColor
    /\ saveTimer = Some(elements)
    /\ onSave = 0
    /\ AppOnPage(elements)
    /\ savesSinceChange = -1

NextBox ==
    \/ PointerMove
    \/ PointerUp
    \/ SetTool
    \/ ContainerPointerDown
    \/ ElementPointerDown
    \/ KeyEscape

\* The Editor mounted on a stored page, with the pointer, the palette and
\* Escape.
SpecBox == InitBox /\ [][NextBox]_vars

\* What Math.random().toString(36).substr(2, 9) can return: any string of at
\* most 9 digits and lower-case letters, here two of them.
RandomIds == {"g1", "t1"}

\* handleContainerPointerDown with generateId() left to Math.random
ContainerPointerDownRandom ==
    \E c \in Points, shift \in BOOLEAN, button \in Buttons, newId \in RandomIds :
        LET p == getMousePos(ClientOf(c, scale), scale) IN
        /\ \A i \in 1..Len(elements) : ~Covers(elements[i], c)
        /\ handleContainerPointerDownId(p, shift, button, newId)
        /\ HandledPointer

NextIds ==
    \/ PointerMove
    \/ PointerUp
    \/ SetTool
    \/ ContainerPointerDownRandom
    \/ SelectTimer
    \/ ElementPointerDown
    \/ KeyDelete

\* The Editor with the ids Math.random yields.
SpecIds == Init /\ [][NextIds]_vars

\* The Editor after any clicks on the zoom controls, and the zoom controls.
InitZoom ==
    /\ elements \in InitialPages
    /\ tool = "SELECT"
    /\ scale \in ScaleMin..ScaleMax
    /\ selectedIds = {}
    /\ slashMenu = Null
    /\ selectionBox = None
    /\ interaction = InitialSession
    /\ timers = {}
    /\ nextId = 0
    /\ nEvents = 0
    /\ escaped = "IDLE"
    /\ activeColor = DefaultColor
    /\ saveTimer = Some(elements)
    /\ onSave = 0
    /\ AppOnPage(elements)
    /\ savesSinceChange = -1

NextZoom ==
    \/ ZoomOut
    \/ ZoomIn
    \/ ZoomReset

SpecZoom == InitZoom /\ [][NextZoom]_vars

(***************************************************************************)
(* Properties.                                                             *)
(***************************************************************************)
\* the step is a pointer-up
IsPointerUp == \E inside \in BOOLEAN : PointerUpAt(inside)
\* the step is a pointer-move
IsPointerMove ==
    \E c \in Points, inside \in BOOLEAN, scrollHeight \in ScrollHeights :
        PointerMoveAt(c, inside, scrollHeight)
\* x, y, width, height of every element, by position in the collection
BoundsOf(els) ==
    [ i \in 1..Len(els) |->
        <<els[i].id, els[i].x, els[i].y, els[i].width, els[i].height>> ]

\* C1: in every reachable state the selection is a subset of the ids of the
\* elements in the collection (no id of a removed element stays selected),
\* also when the 50 ms select-after-create timer fires after the created
\* element was erased.
C1_SelectionIsLive == selectedIds \subseteq IdsOf(elements)

\* C2: after any pointer-up, released inside the canvas container or
\* elsewhere in the window, the mode is IDLE; if the mode was BOX_SELECT the
\* elements intersecting the selection box have been added to the selection
\* and the selection box has been cleared.
C2_PointerUpResolves ==
    [][ IsPointerUp =>
          /\ interaction'.mode = "IDLE"
          /\ (interaction.mode = "BOX_SELECT" /\ selectionBox # None) =>
                /\ BoxHits(elements, selectionBox[1]) \subseteq selectedIds'
                /\ selectionBox' = None ]_vars

\* C3: immediately after Escape is processed, from any mode and any tool,
\* the mode is IDLE, the selection is empty, the tool is SELECT and the
\* slash menu is closed.
C3_EscapeResets ==
    [][ KeyEscape =>
          /\ interaction'.mode = "IDLE"
          /\ selectedIds' = {}
          /\ tool' = "SELECT"
          /\ slashMenu' = Null ]_vars

\* C4: Escape discards the gesture in progress: a pointer-up that follows an
\* Escape pressed during BOX_SELECT adds no element to the selection, and
\* pointer-moves that follow an Escape pressed during RESIZING or MOVING
\* change no element's bounds.
C4_EscapeDiscards ==
    [][ /\ (escaped = "BOX_SELECT" /\ IsPointerUp) =>
              selectedIds' \subseteq selectedIds
        /\ (escaped \in {"RESIZING", "MOVING"} /\ IsPointerMove) =>
              BoundsOf(elements') = BoundsOf(elements) ]_vars

Shapes == {"RECTANGLE", "CIRCLE"}
\* the step is a pointer-move to canvas point c handled by the container
IsContainerMove(c) ==
    \E scrollHeight \in ScrollHeights : PointerMoveAt(c, TRUE, scrollHeight)
\* the step is a button-0 pointer-down on the background at canvas point c
IsContainerDown(c) ==
    \E shift \in BOOLEAN : handleContainerPointerDown(c, shift, 0)

IsResizeMove(scrollHeight) ==
    /\ interaction.mode = "RESIZING"
    /\ HasEl(elements, interaction.currentId)
    /\ \E c \in Points, inside \in BOOLEAN : PointerMoveAt(c, inside, scrollHeight)
\* the element being resized, before and after the step
ResizedBefore == FindEl(elements, interaction.currentId)
ResizedAfter == FindEl(elements', interaction.currentId)
\* the handle addresses the horizontal / the vertical axis
AddressesWidth(handle) == HandleIncludes(handle, "e") \/ HandleIncludes(handle, "w")
AddressesHeight(handle) == HandleIncludes(handle, "n") \/ HandleIncludes(handle, "s")

C8_UnaddressedAxisUntouched ==
    [][ \A scrollHeight \in ScrollHeights :
          IsResizeMove(scrollHeight) =>
             /\ ~AddressesWidth(interaction.resizeHandle) =>
                   /\ ResizedAfter.x = ResizedBefore.x
                   /\ ResizedAfter.width = ResizedBefore.width
             /\ ~AddressesHeight(interaction.resizeHandle) =>
                   /\ ResizedAfter.y = ResizedBefore.y
                   /\ ResizedAfter.height = ResizedBefore.height
      ]_vars

\* the step is deleteElement(elements[i].id), called by the eraser on a
\* pointer-down on the element or on a drag that hits it
IsErase(i) ==
    \/ /\ tool = "ERASER"
       /\ \E shift \in BOOLEAN, onInput \in BOOLEAN :
             handleElementPointerDown(elements[i].id, ClientOf(elements[i], scale),
                                      shift, onInput)
    \/ /\ interaction.mode = "ERASING"
       /\ \E c \in Points :
             /\ FirstHit(elements, c) = i
             /\ IsContainerMove(c)
\* the sequence without its i-th member
RemovedAt(els, i) == SubSeq(els, 1, i - 1) \o SubSeq(els, i + 1, Len(els))

\* C9: deleteElement(id) removes the element with that id from the collection
\* and id from the selection, leaves all other elements, their order and all
\* other selected ids unchanged, and a second deleteElement(id) changes
\* neither the collection nor the selection.
C9_DeleteElement ==
    [][ \A i \in 1..Len(elements) :
          IsErase(i) =>
             LET id == elements[i].id IN
             /\ elements' = RemovedAt(elements, i)
             /\ id \notin selectedIds'
             /\ \A other \in IdsOf(elements) \ {id} :
                   (other \in selectedIds') = (other \in selectedIds)
             /\ selectedIds' \subseteq selectedIds
             /\ DeleteFromElements(elements', id) = elements'
             /\ DeleteFromSelection(selectedIds', id) = selectedIds'
      ]_vars

\* the text block was erased while it and the rectangle were selected: the
\* drag snapshot still names it, the rectangle is still there and selected
C9_Witness ==
    /\ tool = "ERASER"
    /\ DOMAIN interaction.initialPositions = {"t1"}
    /\ IdsOf(elements) = {"r1"}
    /\ selectedIds = {"r1"}

\* C10: a box-select started with shift keeps the selection accumulated
\* before it and one started without shift empties it at pointer-down; after
\* the pointer-up the selection equals the selection before it united with
\* the elements the box hits.
C10_BoxSelectUnion ==
    [][ /\ \A c \in Points, shift \in BOOLEAN :
              (tool = "SELECT" /\ handleContainerPointerDown(c, shift, 0)) =>
                 selectedIds' = IF shift THEN selectedIds ELSE {}
        /\ (IsPointerUp /\ interaction.mode = "BOX_SELECT" /\ selectionBox # None) =>
              selectedIds' = selectedIds \cup BoxHits(elements, selectionBox[1])
      ]_vars

\* the step is a pointer-move to canvas point c
IsMoveTo(c) ==
    \E inside \in BOOLEAN, scrollHeight \in ScrollHeights :
        PointerMoveAt(c, inside, scrollHeight)

\* C11: during MOVING, after every pointer-move each element of the origin
\* snapshot is at its snapshot origin plus (pointer - session anchor)
\* converted to canvas units: all dragged elements are displaced by the same
\* delta, the position depends on the latest pointer position only, a pointer
\* back at the anchor restores every snapshot origin, and the elements outside
\* the snapshot, the sizes and the order of the collection are unchanged.
C11_MoveBySnapshot ==
    [][ \A c \in Points :
          (interaction.mode = "MOVING" /\ IsMoveTo(c)) =>
             LET ip == interaction.initialPositions
                 client == ClientOf(c, scale)
                 sdx == client.x - interaction.startX
                 sdy == client.y - interaction.startY
             IN /\ Len(elements') = Len(elements)
                /\ \A i \in 1..Len(elements) :
                      LET old == elements[i]
                          new == elements'[i]
                      IN IF old.id \in DOMAIN ip
                         THEN /\ (new.x - ip[old.id].x) * scale = sdx * ScaleOne
                              /\ (new.y - ip[old.id].y) * scale = sdy * ScaleOne
                              /\ (sdx = 0 /\ sdy = 0) =>
                                    (new.x = ip[old.id].x /\ new.y = ip[old.id].y)
                              /\ new = [old EXCEPT !.x = new.x, !.y = new.y]
                         ELSE new = old
      ]_vars

\* the text block and the rectangle were dragged together by (-10, -10), one
\* of them having been moved elsewhere by an earlier move event or not
C11_Witness ==
    /\ interaction.mode = "MOVING"
    /\ DOMAIN interaction.initialPositions = {"t1", "r1"}
    /\ HasEl(elements, "t1") /\ HasEl(elements, "r1")
    /\ FindEl(elements, "t1").x = interaction.initialPositions["t1"].x - 10
    /\ FindEl(elements, "t1").y = interaction.initialPositions["t1"].y - 10
    /\ FindEl(elements, "r1").x = interaction.initialPositions["r1"].x - 10
    /\ FindEl(elements, "r1").y = interaction.initialPositions["r1"].y - 10

\* the step is a pointer-down on elements[i] with tool SELECT
IsSelectClick(i, shift, onInput) ==
    /\ tool = "SELECT"
    /\ handleElementPointerDown(elements[i].id, ClientOf(elements[i], scale),
                                shift, onInput)

\* C12: a pointer-down on an existing element with tool SELECT toggles the
\* clicked id and keeps every other selected id when shift is held, leaves
\* the selection unchanged without shift on a selected id, and makes the
\* selection exactly {id} without shift on an unselected id.
C12_ClickSelection ==
    [][ \A i \in 1..Len(elements), shift \in BOOLEAN, onInput \in BOOLEAN :
          IsSelectClick(i, shift, onInput) =>
             LET id == elements[i].id IN
             /\ shift =>
                   /\ (id \in selectedIds') = (id \notin selectedIds)
                   /\ selectedIds' \ {id} = selectedIds \ {id}
             /\ (~shift /\ id \in selectedIds) => selectedIds' = selectedIds
             /\ (~shift /\ id \notin selectedIds) => selectedIds' = {id}
      ]_vars

\* the text block was shift-clicked out of a selection of both elements: the
\* snapshot of that click still names both, the rectangle stays selected
C12_Witness ==
    /\ interaction.mode = "MOVING"
    /\ interaction.currentId = "t1"
    /\ DOMAIN interaction.initialPositions = {"t1", "r1"}
    /\ selectedIds = {"r1"}

\* C13: when a pointer-down on an existing element with tool SELECT starts
\* MOVING, the origin snapshot holds the origin of every element that is
\* selected once the click has been resolved, and of no other element, for
\* plain clicks and for shift-clicks that add or remove the clicked element.
C13_SnapshotIsSelection ==
    [][ \A i \in 1..Len(elements), shift \in BOOLEAN :
          IsSelectClick(i, shift, FALSE) =>
             /\ interaction'.mode = "MOVING"
             /\ DOMAIN interaction'.initialPositions =
                   selectedIds' \cap IdsOf(elements)
             /\ \A id \in DOMAIN interaction'.initialPositions :
                   interaction'.initialPositions[id] =
                      [x |-> FindEl(elements, id).x, y |-> FindEl(elements, id).y]
      ]_vars

\* the step is a pointer-down on elements[i] with tool ERASER
IsEraserClick(i) ==
    /\ tool = "ERASER"
    /\ \E shift \in BOOLEAN, onInput \in BOOLEAN :
          handleElementPointerDown(elements[i].id, ClientOf(elements[i], scale),
                                   shift, onInput)

\* C14: a pointer-down on an existing element with tool ERASER deletes exactly
\* that element from the collection and the selection in the same step and
\* leaves the session mode and every other session field unchanged; it starts
\* no ERASING session.
C14_EraserClick ==
    [][ \A i \in 1..Len(elements) :
          IsEraserClick(i) =>
             LET id == elements[i].id IN
             /\ Len(elements') = Len(elements) - 1
             /\ id \notin IdsOf(elements')
             /\ \A j \in 1..Len(elements) :
                   j # i => elements[j] = elements'[IF j < i THEN j ELSE j - 1]
             /\ id \notin selectedIds'
             /\ selectedIds' \cup {id} = selectedIds \cup {id}
             /\ interaction' = interaction
             /\ (interaction.mode # "ERASING") => (interaction'.mode # "ERASING")
      ]_vars

\* the text block was erased by a press on it while a drag session on it was
\* still recorded: the session is as it was, the rectangle is still selected
C14_Witness ==
    /\ tool = "ERASER"
    /\ interaction.mode = "MOVING"
    /\ interaction.currentId = "t1"
    /\ ~HasEl(elements, "t1")
    /\ selectedIds = {"r1"}

\* C15: erasing is continuous: in an ERASING session every element, of any
\* variant, that is drawn under the pointer position of a pointer-move has
\* been deleted once that move is processed, so a drag crossing several
\* elements deletes them all, in the order the pointer meets them.
C15_EraserDragDeletesCrossed ==
    [][ \A c \in Points :
          (interaction.mode = "ERASING" /\ IsContainerMove(c)) =>
             \A i \in 1..Len(elements) :
                Covers(elements[i], c) => elements[i].id \notin IdsOf(elements')
      ]_vars

\* the collection gained exactly one element, at its end
AppendedOne == /\ Len(elements') = Len(elements) + 1
               /\ SubSeq(elements', 1, Len(elements)) = elements
\* the element a step appended
Appended == elements'[Len(elements')]

\* C16: a pointer-down on empty canvas with tool TEXT, CODE or EXPANDABLE
\* appends, in that step, exactly one new element of that variant at the
\* canvas position of the pointer with its default size and content, adds the
\* new element's id to the selection and leaves the session mode IDLE; a
\* following pointer-move does not change the collection.
C16_ClickToPlace ==
    [][ /\ \A c \in Points :
              (tool \in {"TEXT", "CODE", "EXPANDABLE"} /\ IsContainerDown(c)) =>
                 /\ AppendedOne
                 /\ Appended.type = tool
                 /\ Appended.x = c.x /\ Appended.y = c.y
                 /\ tool = "TEXT" =>
                       /\ Appended.width = Some(400) /\ Appended.height = None
                       /\ Appended.content = ""
                 /\ tool = "CODE" =>
                       /\ Appended.width = Some(300) /\ Appended.height = Some(150)
                       /\ Appended.content = "// Code block"
                 /\ tool = "EXPANDABLE" =>
                       /\ Appended.width = Some(300) /\ Appended.height = None
                       /\ Appended.content = "Toggle Section"
                 /\ selectedIds' = selectedIds \cup {Appended.id}
                 /\ interaction'.mode = "IDLE"
        /\ (interaction.mode = "IDLE" /\ IsPointerMove) => elements' = elements
      ]_vars

\* C17: a pointer-down on empty canvas with tool RECT, CIRCLE or DRAW appends
\* exactly one element of the corresponding variant (RECTANGLE / CIRCLE of
\* width = height = 0 at the pointer, PATH with the single pointer point),
\* sets the session anchor to the canvas position of the pointer, currentId to
\* the new element's id and the mode to CREATING, and leaves the selection
\* unchanged.
C17_DragCreationStart ==
    [][ \A c \in Points :
          (tool \in {"RECT", "CIRCLE", "DRAW"} /\ IsContainerDown(c)) =>
             /\ AppendedOne
             /\ tool = "RECT" => Appended.type = "RECTANGLE"
             /\ tool = "CIRCLE" => Appended.type = "CIRCLE"
             /\ tool \in {"RECT", "CIRCLE"} =>
                   /\ Appended.x = c.x /\ Appended.y = c.y
                   /\ Appended.width = Some(0) /\ Appended.height = Some(0)
             /\ tool = "DRAW" =>
                   /\ Appended.type = "PATH"
                   /\ Appended.points = <<[x |-> c.x, y |-> c.y]>>
             /\ interaction'.startX = c.x /\ interaction'.startY = c.y
             /\ interaction'.currentId = Appended.id
             /\ interaction'.mode = "CREATING"
             /\ selectedIds' = selectedIds
      ]_vars

\* a freehand path was started at (100,10) while the text block was selected
C17_Witness ==
    /\ interaction.mode = "CREATING"
    /\ interaction.startX = 100 /\ interaction.startY = 10
    /\ selectedIds = {"t1"}
    /\ HasEl(elements, interaction.currentId)
    /\ LET el == FindEl(elements, interaction.currentId)
       IN /\ el.type = "PATH"
          /\ el.points = <<[x |-> 100, y |-> 10]>>

\* C18: the debounced save fires once after a quiet period: once onSave has
\* been called after a change of the collection that no further change
\* followed, it has been called exactly once, with that collection, and no
\* further save is scheduled or fired until the collection changes again,
\* with App.handleSavePage as the onSave callback.
C18_SaveOncePerChange ==
    /\ savesSinceChange <= 1
    /\ savesSinceChange = 1 => (appPage = elements /\ saveTimer = None)

\* C19: on Delete or Backspace, if no editable surface holds the focus and
\* the selection is not empty, every selected element is removed from the
\* collection and the selection becomes empty; otherwise the collection and
\* the selection are unchanged.  In both cases the unselected elements, their
\* order and the session are unchanged.
C19_DeleteKey ==
    [][ \A isEditing \in BOOLEAN :
          handleKeyDelete(isEditing) =>
             LET kept == { i \in 1..Len(elements) : elements[i].id \notin selectedIds }
             IN /\ IF ~isEditing /\ selectedIds # {}
                   THEN /\ Len(elements') = Cardinality(kept)
                        /\ \A i \in kept :
                              elements'[Cardinality({ j \in kept : j <= i })] = elements[i]
                        /\ selectedIds' = {}
                   ELSE /\ elements' = elements
                        /\ selectedIds' = selectedIds
                /\ interaction' = interaction
      ]_vars

\* the text block was selected by a press and removed by the Delete key: the
\* rectangle is left, nothing is selected, the session of the press remains
C19_Witness ==
    /\ nEvents = 2
    /\ IdsOf(elements) = {"r1"}
    /\ selectedIds = {}
    /\ interaction.mode = "MOVING"
    /\ interaction.currentId = "t1"

\* C20: after any sequence of zoom-in, zoom-out and reset operations the
\* scale is positive and within [0.1, 3.0]; zoom-out and zoom-in change it by
\* 0.1 and leave it at the bound when it is at the lower / upper bound; reset
\* sets it to 1.  (The scale is in tenths.)
C20_ScaleInRange ==
    [][ /\ scale > 0 /\ scale >= 1 /\ scale <= 30
        /\ scale' > 0 /\ scale' >= 1 /\ scale' <= 30
        /\ ZoomOut => scale' = (IF scale = 1 THEN 1 ELSE scale - 1)
        /\ ZoomIn => scale' = (IF scale = 30 THEN 30 ELSE scale + 1)
        /\ ZoomReset => scale' = 10
      ]_vars

\* a zoom operation has left the scale at the upper bound
C20_Witness ==
    /\ nEvents > 0
    /\ scale = 30

\* C21: in every reachable state no two elements of the collection have the
\* same id: an element created by a pointer-down receives from generateId an
\* id different from the id of every element already in the collection.
C21_UniqueIds ==
    \A i \in 1..Len(elements), j \in 1..Len(elements) :
        i # j => elements[i].id # elements[j].id

\* the indices of the elements of els that are also in other, in order
KeptIds(els, other) ==
    LET Keep(el) == el.id \in IdsOf(other)
        kept == SelectSeq(els, Keep)
    IN [ i \in 1..Len(kept) |-> kept[i].id ]

\* C22: insertion order is preserved: in every step the elements that remain
\* keep their relative order, and an element that was not in the collection
\* before the step is its last element afterwards.
C22_OrderPreserved ==
    [][ /\ KeptIds(elements', elements) = KeptIds(elements, elements')
        /\ \A i \in 1..Len(elements') :
             elements'[i].id \notin IdsOf(elements) => i = Len(elements')
      ]_vars

\* the first element of the stored page was patched and a new element was
\* created: the patched one is still first, the new one last
C22_Witness ==
    /\ Len(elements) = 3
    /\ elements[1].id = "t1" /\ elements[1] # StoredPage[1]
    /\ elements[2].id = "r1"
    /\ elements[3].id \in SeqToSet(IdPool)

\* elW / elH: the width / height, or 10 when it is absent or zero
ExtentOrFallback(v) == IF v = None THEN 10 ELSE IF v[1] = 0 THEN 10 ELSE v[1]

\* the element and the box overlap as open intervals on both axes
OverlapsBox(el, box) ==
    /\ el.x < box.x + box.width
    /\ el.x + ExtentOrFallback(el.width) > box.x
    /\ el.y < box.y + box.height
    /\ el.y + ExtentOrFallback(el.height) > box.y

\* C23: when handleContainerPointerUp resolves a box-select, the elements it
\* adds to the selection are exactly those that overlap the box as open
\* intervals on both axes, with 10 as the extent of an absent or zero width or
\* height; an element that only touches the box along an edge is not added.
C23_BoxOverlap ==
    [][ (interaction.mode = "BOX_SELECT" /\ selectionBox # None /\ PointerUpAt(TRUE)) =>
           selectedIds' = selectedIds \cup
               { elements[i].id : i \in { j \in 1..Len(elements) :
                                          OverlapsBox(elements[j], selectionBox[1]) } }
      ]_vars

\* a box from (50,50) to (150,120) was resolved on the page of z1 and c1: the
\* zero-size rectangle at (45,100) is selected through the fallback extent, the
\* code block whose left edge x = 150 is the right edge of the box is not
C23_Witness ==
    /\ elements = BoxPage
    /\ interaction.mode = "IDLE"
    /\ interaction.startX = 50 /\ interaction.startY = 50
    /\ selectionBox = None
    /\ "z1" \in selectedIds
    /\ "c1" \notin selectedIds

\* the bounding box of a path: the min/max of its points offset by its origin
PathBounds(el) ==
    LET xs == { el.points[i].x : i \in 1..Len(el.points) }
        ys == { el.points[i].y : i \in 1..Len(el.points) }
    IN [x |-> SetMin(xs) + el.x, y |-> SetMin(ys) + el.y,
        width |-> SetMax(xs) - SetMin(xs), height |-> SetMax(ys) - SetMin(ys)]

\* the box and the bounding box of the path overlap
OverlapsPath(el, box) ==
    LET pb == PathBounds(el) IN
    /\ pb.x <= box.x + box.width /\ pb.x + pb.width >= box.x
    /\ pb.y <= box.y + box.height /\ pb.y + pb.height >= box.y

\* C24: when a box-select is resolved, a freehand path is added to the
\* selection exactly when the box overlaps the bounding box of the path's
\* points offset by its origin: a box drawn around the stroke selects it.
C24_PathBoxSelect ==
    [][ (interaction.mode = "BOX_SELECT" /\ selectionBox # None /\ PointerUpAt(TRUE)) =>
           \A i \in 1..Len(elements) :
              (elements[i].type = "PATH" /\ elements[i].points # <<>>
               /\ elements[i].id \notin selectedIds) =>
                 (elements[i].id \in selectedIds' <=>
                    OverlapsPath(elements[i], selectionBox[1]))
      ]_vars

\* the point-in-element test as stated, for an element whose width and
\* height count as explicit or not: with an explicit size the closed bounding
\* box, else for a path the closed bounding box of its points, else for a
\* text block the 300x50 box at its origin
StatedEraserHit(el, p, explicit) ==
    IF explicit
    THEN /\ el.x <= p.x /\ p.x <= el.x + el.width[1]
         /\ el.y <= p.y /\ p.y <= el.y + el.height[1]
    ELSE IF el.type = "PATH" /\ el.points # <<>>
    THEN LET pb == PathBounds(el) IN
         /\ pb.x <= p.x /\ p.x <= pb.x + pb.width
         /\ pb.y <= p.y /\ p.y <= pb.y + pb.height
    ELSE /\ el.type = "TEXT"
         /\ el.x <= p.x /\ p.x <= el.x + 300
         /\ el.y <= p.y /\ p.y <= el.y + 50

\* C25 (as stated): during ERASING a pointer-move to (x, y) deletes the first
\* element that the point test hits, and the test hits exactly an element
\* with explicit width and height (zero included) whose closed bounding box
\* holds the point, a path whose closed points bounding box (offset by its
\* origin) holds it, or a text block without explicit size whose 300x50 box
\* at its origin holds it.
C25_EraserPointTest ==
    [][ \A c \in Points :
          (interaction.mode = "ERASING" /\ IsContainerMove(c)) =>
             LET hits == { i \in 1..Len(elements) :
                             StatedEraserHit(elements[i], c,
                                 elements[i].width # None /\ elements[i].height # None) }
             IN IF hits = {}
                THEN elements' = elements
                ELSE elements' = RemovedAt(elements, SetMin(hits))
      ]_vars

\* C25 (amended): the same, where a width or height of zero counts as not
\* explicit: an element of zero width or height is tested as a path or as a
\* text block, and is not hit when it is neither.
C25_EraserPointTestNonZero ==
    [][ \A c \in Points :
          (interaction.mode = "ERASING" /\ IsContainerMove(c)) =>
             LET hits == { i \in 1..Len(elements) :
                             StatedEraserHit(elements[i], c,
                                 /\ elements[i].width \notin {None, Some(0)}
                                 /\ elements[i].height \notin {None, Some(0)}) }
             IN IF hits = {}
                THEN elements' = elements
                ELSE elements' = RemovedAt(elements, SetMin(hits))
      ]_vars

\* an eraser session anchored at (50,50) on the stored page has removed the
\* rectangle r1 and kept the text block t1
C25_Witness ==
    /\ interaction.mode = "ERASING"
    /\ interaction.startX = 50 /\ interaction.startY = 50
    /\ elements = << StoredPage[1] >>

\* the step is a call of deleteElement, updateElement or handleResizeStart
\* with an id that is not in the collection
IsLateDelete(id) ==
    /\ id \notin IdsOf(elements)
    /\ deleteElement(id)
    /\ UNCHANGED <<tool, scale, slashMenu, selectionBox, interaction, timers, nextId>>
    /\ nEvents' = nEvents + 1
IsLateUpdate(id) ==
    /\ id \notin IdsOf(elements)
    /\ \E content \in Contents : updateElement(id, content)
    /\ UNCHANGED <<tool, scale, selectedIds, slashMenu, selectionBox, interaction,
                   timers, nextId>>
    /\ nEvents' = nEvents + 1
IsLateResizeStart(id) ==
    /\ id \notin IdsOf(elements)
    /\ \E handle \in Handles :
          handleResizeStart(id, handle, ClientOf([x |-> 0, y |-> 0], scale),
                            [width |-> 0, height |-> 0])
    /\ nEvents' = nEvents + 1

\* C26: operations that refer to something absent are no-ops: a pointer-move
\* in IDLE changes no element, selection or session field; updateElement and
\* deleteElement with an id not in the collection leave the elements and the
\* selection unchanged; handleResizeStart with such an id leaves the session
\* unchanged; a RESIZING move whose element, or a MOVING move all of whose
\* snapshot elements, have been deleted changes no element.
C26_AbsentTargetNoOp ==
    [][ /\ (interaction.mode = "IDLE" /\ IsPointerMove) =>
              UNCHANGED <<elements, selectedIds, interaction>>
        /\ \A id \in CallIds :
              (IsLateDelete(id) \/ IsLateUpdate(id)) =>
                 UNCHANGED <<elements, selectedIds>>
        /\ \A id \in CallIds : IsLateResizeStart(id) => UNCHANGED interaction
        /\ ( /\ IsPointerMove
             /\ \/ /\ interaction.mode = "RESIZING"
                   /\ ~HasEl(elements, interaction.currentId)
                \/ /\ interaction.mode = "MOVING"
                   /\ DOMAIN interaction.initialPositions \cap IdsOf(elements) = {} ) =>
              UNCHANGED elements
      ]_vars

\* the state InitPlaced describes, as the Editor reaches it from the mount
PlacedReached ==
    /\ elements = << NewElement(generateId(0), "TEXT", [x |-> 50, y |-> 50]) >>
    /\ interaction = Session(50, 50, generateId(0), "IDLE", NoPositions, "", ZeroBounds)
    /\ timers = {generateId(0)}
    /\ nextId = 1
    /\ selectedIds = {} /\ selectionBox = None /\ slashMenu = Null
    /\ scale = ScaleOne /\ escaped = "IDLE" /\ activeColor = DefaultColor
    /\ saveTimer = Some(elements) /\ onSave = 0 /\ appPage = <<>>
    /\ savesSinceChange = 0
    /\ tool = "ERASER"

\* C27: switching the tool through the palette changes only the tool: every
\* step that changes the tool leaves the elements and the whole session
\* record unchanged, and leaves the selection unchanged unless the step is an
\* Escape key (which also selects the SELECT tool), so a session in flight
\* stays live in its mode.
C27_ToolSwitchOnly ==
    [][ tool' # tool =>
          /\ UNCHANGED <<elements, interaction, selectionBox, scale>>
          /\ \/ UNCHANGED <<selectedIds, slashMenu, escaped>>
             \/ /\ tool' = "SELECT" /\ selectedIds' = {} /\ slashMenu' = Null
                /\ escaped' = interaction.mode
      ]_vars

\* a MOVING session, which only the SELECT tool starts, is live while another
\* tool is active
C27_Witness ==
    /\ interaction.mode = "MOVING"
    /\ tool = "RECT"
    /\ selectedIds # {}

\* C28: a change of the scale changes no element, no selected id and no
\* session field: every step that changes the scale leaves the elements, the
\* selection, the selection box and the session record unchanged.
C28_ScaleChangeOnly ==
    [][ scale' # scale =>
          UNCHANGED <<elements, selectedIds, selectionBox, interaction, tool>>
      ]_vars

\* the scale was changed while a MOVING session, anchored on the text block
\* t1 at scale 1, is in flight
C28_Witness ==
    /\ interaction.mode = "MOVING"
    /\ interaction.currentId = "t1"
    /\ interaction.startX = ContainerLeft + 60
    /\ scale # ScaleOne

\* the session anchor
AnchorOf(session) == [x |-> session.startX, y |-> session.startY]

\* C29: every pointer-down that starts a session stores as the session
\* anchor the canvas-space position of that pointer-down, that is
\* ((screenX - containerOrigin.x) / scale, (screenY - containerOrigin.y) / scale),
\* in every mode: BOX_SELECT, ERASING and CREATING (pointer-down on the
\* background), MOVING (on an element) and RESIZING (on a resize handle).
C29_AnchorInCanvasSpace ==
    [][ /\ \A c \in Points :
              LET client == ClientOf(c, scale) IN
              ( /\ \E shift \in BOOLEAN, button \in Buttons :
                      handleContainerPointerDown(getMousePos(client, scale), shift, button)
                /\ interaction'.mode \in {"BOX_SELECT", "ERASING", "CREATING"} ) =>
                 AnchorOf(interaction') = getMousePos(client, scale)
        /\ \A i \in 1..Len(elements) :
              LET client == ClientOf(elements[i], scale) IN
              ( /\ \E shift \in BOOLEAN, onInput \in BOOLEAN :
                      handleElementPointerDown(elements[i].id, client, shift, onInput)
                /\ interaction'.mode = "MOVING"
                /\ interaction'.currentId = elements[i].id
                /\ tool = "SELECT" ) =>
                 AnchorOf(interaction') = getMousePos(client, scale)
        /\ \A i \in 1..Len(elements), handle \in Handles, domH \in DomHeights :
              LET el == elements[i]
                  dom == [width |-> OrElse(el.width, TextWidth),
                          height |-> OrElse(el.height, domH)]
                  client == ClientOf(HandlePoint(el, dom.width, dom.height, handle), scale)
              IN ( /\ el.id \in selectedIds
                   /\ handleResizeStart(el.id, handle, client, dom)
                   /\ interaction'.mode = "RESIZING"
                   /\ interaction'.resizeHandle = handle ) =>
                    AnchorOf(interaction') = getMousePos(client, scale)
      ]_vars

\* C30: in every reachable state the selection box is present only while the
\* session mode is BOX_SELECT: it is absent whenever the mode is IDLE,
\* CREATING, MOVING, ERASING or RESIZING, for any interleaving of
\* pointer-downs, moves, ups and key events.
C30_BoxOnlyInBoxSelect ==
    selectionBox # None => interaction.mode = "BOX_SELECT"

\* C31: Escape pressed while a RECT, CIRCLE or DRAW element is being created
\* does not remove that element: the Escape step leaves the collection
\* unchanged, and so does the pointer-up that follows it, so that an element
\* that is in the collection before either step is in it afterwards, also
\* when it is still zero-size.
C31_EscapeKeepsCreated ==
    [][ /\ (interaction.mode = "CREATING" /\ KeyEscape) =>
              /\ elements' = elements
              /\ HasEl(elements, interaction.currentId) =>
                    HasEl(elements', interaction.currentId)
        /\ (escaped = "CREATING" /\ IsPointerUp) =>
              /\ elements' = elements
              /\ HasEl(elements, interaction.currentId) =>
                    HasEl(elements', interaction.currentId)
      ]_vars

\* Escape was pressed during the creation of a rectangle or ellipse that is
\* still zero-size and still in the collection
C31_Witness ==
    /\ escaped = "CREATING"
    /\ interaction.mode = "CREATING"
    /\ HasEl(elements, interaction.currentId)
    /\ FindEl(elements, interaction.currentId).type \in Shapes
    /\ FindEl(elements, interaction.currentId).width = Some(0)
    /\ tool = "SELECT"

\* the path being created
CreatedPath == FindEl(elements, interaction.currentId)
IsCreatingPath ==
    /\ interaction.mode = "CREATING"
    /\ HasEl(elements, interaction.currentId)
    /\ CreatedPath.type = "PATH"

C33_TimerCoalescing ==
    [][ /\ Len(saveTimer) <= 1 /\ Len(saveTimer') <= 1
        /\ saveTimer # <<>> => saveTimer[1] = elements
        /\ elements' # elements => saveTimer' = << elements' >>
        /\ onSave' # onSave => (appPage' = elements /\ elements' = elements)
      ]_vars

\* a save was made, then the collection was changed: one timer is pending,
\* with the changed collection, which App has not stored yet
C33_Witness ==
    /\ onSave >= 1
    /\ savesSinceChange = 0
    /\ saveTimer = << elements >>
    /\ appPage # elements

(***************************************************************************)
(* The eraser over elements that lie on top of each other.                 *)
(***************************************************************************)
\* Stored pages on which a code block and a rectangle overlap, in either
\* order of insertion, next to a text block.
OverlapPages ==
    { << Element("c1", "CODE", 150, 50, Some(CodeWidth), Some(CodeHeight), <<>>,
                 "// Code block"),
         Element("t1", "TEXT", 60, 60, Some(100), None, <<>>, ""),
         Styled(Element("r1", "RECTANGLE", 200, 100, Some(100), Some(60), <<>>, Null),
                DefaultColor) >>,
      << Styled(Element("r1", "RECTANGLE", 200, 100, Some(100), Some(60), <<>>, Null),
                DefaultColor),
         Element("t1", "TEXT", 60, 60, Some(100), None, <<>>, ""),
         Element("c1", "CODE", 150, 50, Some(CodeWidth), Some(CodeHeight), <<>>,
                 "// Code block") >> }

InitErase ==
    /\ elements \in OverlapPages
    /\ tool \in {"SELECT", "ERASER"}
    /\ scale = ScaleOne
    /\ selectedIds = {}
    /\ slashMenu = Null
    /\ selectionBox = None
    /\ interaction = InitialSession
    /\ timers = {}
    /\ nextId = 0
    /\ nEvents = 0
    /\ escaped = "IDLE"
    /\ activeColor = DefaultColor
    /\ saveTimer = Some(elements)
    /\ onSave = 0
    /\ AppOnPage(elements)
    /\ savesSinceChange = -1

NextErase ==
    \/ PointerMove
    \/ PointerUp
    \/ SetTool
    \/ ContainerPointerDown
    \/ KeyEscape

\* The Editor mounted on a page with overlapping elements, with the palette,
\* Escape and a pointer that is pressed on the background only.
SpecErase == InitErase /\ [][NextErase]_vars

\* the indices of the elements whose hit box holds point p
HitsAt(els, p) == { i \in 1..Len(els) : EraserHit(els[i], p) }

\* C35: a pointer-move handled in ERASING deletes at most one element, the
\* earliest-inserted one whose hit box holds the pointer; every other
\* element, those whose hit boxes hold the point too, stays in the
\* collection, in order; a move that hits nothing deletes nothing.
C35_EraseOnePerMove ==
    [][ \A c \in Points :
          (interaction.mode = "ERASING" /\ IsContainerMove(c)) =>
             /\ Len(elements') >= Len(elements) - 1
             /\ HitsAt(elements, c) = {} => elements' = elements
             /\ HitsAt(elements, c) # {} =>
                  LET first == SetMin(HitsAt(elements, c)) IN
                  /\ elements' = RemovedAt(elements, first)
                  /\ \A i \in HitsAt(elements, c) \ {first} :
                        HasEl(elements', elements[i].id)
      ]_vars

\* the eraser was dragged over the point (250,130), which both the code
\* block and the rectangle hold: the one inserted first is gone, the other
\* one is still there
C35_Witness ==
    /\ interaction.mode = "ERASING"
    /\ nEvents = 2
    /\ [ i \in 1..Len(elements) |-> elements[i].id ] = <<"t1", "c1">>
    /\ EraserHit(elements[2], [x |-> 250, y |-> 130])

\* el after the step differs from el before it in x and y at most
SameButPosition(before, after) ==
    [after EXCEPT !.x = before.x, !.y = before.y] = before
\* el after the step differs from el before it in x, y, width, height at most
SameButBounds(before, after) ==
    [after EXCEPT !.x = before.x, !.y = before.y,
                  !.width = before.width, !.height = before.height] = before

\* C36: a pointer-move during MOVING changes only x and y of the elements of
\* the origin snapshot, and a pointer-move during RESIZING changes only x, y,
\* width and height of the one element named by currentId; every other
\* element, every other field (type, content, points, style), the number and
\* order of the elements, the selection and the session record are left as
\* they were.
C36_MoveFrame ==
    [][ (interaction.mode \in {"MOVING", "RESIZING"} /\ IsPointerMove) =>
          /\ selectedIds' = selectedIds
          /\ interaction' = interaction
          /\ Len(elements') = Len(elements)
          /\ \A i \in 1..Len(elements) :
                IF interaction.mode = "MOVING"
                THEN IF elements[i].id \in DOMAIN interaction.initialPositions
                     THEN SameButPosition(elements[i], elements'[i])
                     ELSE elements'[i] = elements[i]
                ELSE IF elements[i].id = interaction.currentId
                     THEN SameButBounds(elements[i], elements'[i])
                     ELSE elements'[i] = elements[i]
      ]_vars

\* the rectangle of the stored page was dragged away from its place while the
\* text block, which is not in the snapshot, stayed at its own
C36_Witness ==
    /\ interaction.mode = "MOVING"
    /\ DOMAIN interaction.initialPositions = {"r1"}
    /\ Len(elements) = 2
    /\ elements[1] = StoredPage[1]
    /\ elements[2].id = "r1"
    /\ elements[2].x # interaction.initialPositions["r1"].x
    /\ SameButPosition(StoredPage[2], elements[2])

\* C40: sessions do not nest and carry no stale fields: every pointer-down
\* that starts a session (BOX_SELECT, ERASING, CREATING, MOVING, RESIZING)
\* writes the whole session record, so from the start of a session on its
\* initialPositions is empty unless the mode is MOVING, its resizeHandle is
\* one of the 8 compass codes when the mode is RESIZING and the empty string
\* otherwise, and its initialBounds is all zero unless the mode is RESIZING,
\* whatever session went before.
C40_SessionReplacedWhole ==
    interaction.mode # "IDLE" =>
        /\ interaction.mode # "MOVING" => interaction.initialPositions = NoPositions
        /\ interaction.mode = "RESIZING" => interaction.resizeHandle \in Handles
        /\ interaction.mode # "RESIZING" =>
              /\ interaction.resizeHandle = ""
              /\ interaction.initialBounds = ZeroBounds

\* a resize session on the text block of the stored page, started right after
\* the click that selected the block had started a MOVING session with the
\* block in its snapshot
C40_Witness ==
    /\ interaction.mode = "RESIZING"
    /\ interaction.currentId = "t1"
    /\ selectedIds = {"t1"}
    /\ elements = StoredPage
    /\ nEvents = 2
    /\ interaction.initialPositions = NoPositions

(***************************************************************************)
(* App (src/types.ts): the documents, the file tree of the Sidebar, the    *)
(* active page, and the Editor it mounts with key = activePageId.          *)
(***************************************************************************)
NodeTypes == {"FOLDER", "PAGE"}
\* what the user types as the name of a new document
DocNames == {"", "Doc"}

\* A stored App state: one document whose root holds a page with the stored
\* elements and a folder, and the folder holds a page with one text block.
StoredApp ==
    LET s1 == createDocument(initialState, "Doc", "d1", "n0", "p1")
        s2 == createFileNode(s1, "n0", "FOLDER", "New Folder", "f1")
        s3 == createFileNode(s2, "f1", "PAGE", "New Page", "p2")
        s4 == updatePageContent(s3, "p1", StoredPage)
    IN updatePageContent(s4, "p2",
                         << Element("t2", "TEXT", 50, 50, Some(TextWidth), None,
                                    <<>>, "") >>)

\* the nodes that TreeNode renders below the nodes `ids`, n levels deep
RECURSIVE Descendants(_, _, _)
Descendants(nodes, ids, n) ==
    IF n = 0 THEN ids
    ELSE Descendants(nodes,
                     UNION { {i} \cup (SeqToSet(nodes[i].children) \cap DOMAIN nodes) :
                             i \in ids },
                     n - 1)
\* the nodes of the Sidebar: those reachable from the root of document docId
TreeOf(st, docId) ==
    Descendants(st.fileNodes, {st.documents[docId].rootNodeId} \cap DOMAIN st.fileNodes,
                Cardinality(DOMAIN st.fileNodes))

\* initialContent={state.pages[activePageId] || { pageId, elements: [] }}
InitialContent(st, pageId) ==
    IF pageId \in DOMAIN st.pages THEN st.pages[pageId].elements ELSE <<>>

\* The Editor is mounted on els: the initial values of its useState and
\* useRef hooks, and the auto-save effect of the mount
EditorMounts(els) ==
    /\ elements' = els
    /\ tool' = "SELECT"
    /\ scale' = ScaleOne
    /\ selectedIds' = {}
    /\ slashMenu' = Null
    /\ selectionBox' = None
    /\ interaction' = InitialSession
    /\ activeColor' = DefaultColor
    /\ timers' = {}
    /\ escaped' = "IDLE"
    /\ saveTimer' = << els >>
    /\ savesSinceChange' = -1
\* The Editor is unmounted: the cleanup of the auto-save effect clears the
\* timeout
EditorUnmounts ==
    /\ elements' = <<>>
    /\ tool' = "SELECT"
    /\ scale' = ScaleOne
    /\ selectedIds' = {}
    /\ slashMenu' = Null
    /\ selectionBox' = None
    /\ interaction' = InitialSession
    /\ activeColor' = DefaultColor
    /\ timers' = {}
    /\ escaped' = "IDLE"
    /\ saveTimer' = None
    /\ savesSinceChange' = -1

\* an Editor without a key: it stays mounted when the active page changes
AppRendered_NoKey ==
    /\ onSave' = onSave + 1
    /\ IF activePageId' = Null
       THEN EditorUnmounts /\ mountedFor' = Null
       ELSE IF activePageId = Null
       THEN /\ EditorMounts(InitialContent(state'[1], activePageId'))
            /\ mountedFor' = activePageId'
       ELSE /\ UNCHANGED <<elements, tool, scale, selectedIds, slashMenu,
                           selectionBox, interaction, activeColor, timers,
                           escaped, savesSinceChange, mountedFor>>
            /\ AutoSaveEffect(saveTimer)
    /\ lost' = IF activePageId' = Null /\ savesSinceChange = 0
               THEN lost \cup {activePageId} ELSE lost
\* A handler of App has set its state: App renders again, with a new
\* handleSavePage closure; the Editor is mounted anew when its key
\* (activePageId) has changed, unmounted when there is no active page, and
\* else re-runs its auto-save effect for the new onSave
AppRendered ==
    /\ onSave' = onSave + 1
    /\ IF activePageId' = Null
       THEN EditorUnmounts /\ mountedFor' = Null
       ELSE IF activePageId' # activePageId
       THEN /\ EditorMounts(InitialContent(state'[1], activePageId'))
            /\ mountedFor' = activePageId'
       ELSE /\ UNCHANGED <<elements, tool, scale, selectedIds, slashMenu,
                           selectionBox, interaction, activeColor, timers,
                           escaped, savesSinceChange, mountedFor>>
            /\ AutoSaveEffect(saveTimer)
    /\ lost' = IF activePageId # Null /\ activePageId' # activePageId
                  /\ savesSinceChange = 0
               THEN lost \cup {activePageId} ELSE lost
\* A handler of App returned without setting any state: nothing is rendered
AppIdle ==
    UNCHANGED <<elements, tool, scale, selectedIds, slashMenu, selectionBox,
                interaction, activeColor, timers, escaped, saveTimer,
                savesSinceChange, onSave, mountedFor, lost,
                state, currentDocId, activePageId, storage, nextId>>

\* The mount of App: the initialization effect loads the state, and the sync
\* effect stores it
AppMount ==
    /\ state = None
    /\ state' = Some(loadState(storage))
    /\ storage' = saveState(state'[1])
    /\ UNCHANGED <<elements, tool, scale, selectedIds, slashMenu, selectionBox,
                   interaction, activeColor, timers, escaped, saveTimer,
                   savesSinceChange, onSave, mountedFor, lost,
                   currentDocId, activePageId, nextId, nEvents>>

\* handleCreateDoc, from the modal of the home view
handleCreateDoc(name) ==
    IF name = "" THEN AppIdle
    ELSE LET docId == generateId(nextId)
             rootId == generateId(nextId + 1)
             pageId == generateId(nextId + 2)
             newState == createDocument(state[1], name, docId, rootId, pageId)
         IN /\ state' = Some(newState)
            /\ nextId' = nextId + 3
            /\ currentDocId' = docId
            /\ activePageId' = newState.fileNodes[rootId].children[1]
            /\ storage' = saveState(newState)
            /\ AppRendered
CreateDoc ==
    \E name \in DocNames :
        /\ state # None
        /\ currentDocId = Null
        /\ handleCreateDoc(name)
        /\ Counted

\* onClick of a document card of the home view
OpenDoc ==
    /\ state # None
    /\ \E docId \in DOMAIN state[1].documents :
           LET rootId == state[1].documents[docId].rootNodeId IN
           /\ currentDocId = Null
           /\ currentDocId' = docId
           /\ activePageId' = IF /\ rootId \in DOMAIN state[1].fileNodes
                                 /\ Len(state[1].fileNodes[rootId].children) > 0
                              THEN state[1].fileNodes[rootId].children[1]
                              ELSE activePageId
           /\ UNCHANGED <<state, storage, nextId>>
           /\ AppRendered
           /\ Counted

\* onClick of "Back to Home"
BackToHome ==
    /\ state # None
    /\ currentDocId # Null
    /\ currentDocId' = Null
    /\ activePageId' = Null
    /\ UNCHANGED <<state, storage, nextId>>
    /\ AppRendered
    /\ Counted

\* onSelectPage={setActivePageId}, called by a click on a page of the tree
SelectPage ==
    /\ state # None
    /\ \E id \in DOMAIN state[1].fileNodes :
           /\ currentDocId # Null
           /\ id \in TreeOf(state[1], currentDocId)
           /\ state[1].fileNodes[id].type = "PAGE"
           /\ IF id = activePageId THEN AppIdle
              ELSE /\ activePageId' = id
                   /\ UNCHANGED <<state, currentDocId, storage, nextId>>
                   /\ AppRendered
           /\ Counted

\* handleCreateNode(parentId, type, name)
handleCreateNode(parentId, type, name) ==
    LET nodeId == generateId(nextId)
        newState == createFileNode(state[1], parentId, type, name, nodeId)
    IN /\ state' = Some(newState)
       /\ nextId' = nextId + 1
       /\ activePageId' = IF type = "PAGE" THEN nodeId ELSE activePageId
       /\ storage' = saveState(newState)
       /\ UNCHANGED currentDocId
       /\ AppRendered
\* handleAddFile / handleAddFolder of a folder of the tree
CreateNode ==
    /\ state # None
    /\ \E parentId \in DOMAIN state[1].fileNodes, type \in NodeTypes :
           /\ currentDocId # Null
           /\ parentId \in TreeOf(state[1], currentDocId)
           /\ state[1].fileNodes[parentId].type = "FOLDER"
           /\ handleCreateNode(parentId, type,
                               IF type = "PAGE" THEN "New Page" ELSE "New Folder")
           /\ Counted

\* handleDeleteNode(nodeId)
handleDeleteNode(nodeId) ==
    IF nodeId \notin DOMAIN state[1].fileNodes
       \/ state[1].fileNodes[nodeId].parentId = Null
    THEN AppIdle
    ELSE LET node == state[1].fileNodes[nodeId]
             Keep(id) == id # nodeId
             newState == [state[1] EXCEPT
                            !.fileNodes[node.parentId].children = SelectSeq(@, Keep)]
         IN /\ state' = Some(newState)
            /\ activePageId' = IF activePageId = nodeId THEN Null ELSE activePageId
            /\ storage' = saveState(newState)
            /\ UNCHANGED <<currentDocId, nextId>>
            /\ AppRendered
\* onDeleteNode of a node of the tree
DeleteNode ==
    /\ state # None
    /\ \E nodeId \in DOMAIN state[1].fileNodes :
           /\ currentDocId # Null
           /\ nodeId \in TreeOf(state[1], currentDocId)
           /\ handleDeleteNode(nodeId)
           /\ Counted

\* App before its mount, over whatever localStorage holds: nothing, the empty
\* string, a text that is not JSON, or a state stored earlier.
InitApp ==
    /\ state = None
    /\ currentDocId = Null
    /\ activePageId = Null
    /\ mountedFor = Null
    /\ lost = {}
    /\ \/ storage = None
       \/ storage = Some(EmptyText)
       \/ storage = Some(BrokenText)
       \/ storage = saveState(StoredApp)
    /\ elements = <<>>
    /\ tool = "SELECT"
    /\ scale = ScaleOne
    /\ selectedIds = {}
    /\ slashMenu = Null
    /\ selectionBox = None
    /\ interaction = InitialSession
    /\ timers = {}
    /\ nextId = 0
    /\ nEvents = 0
    /\ escaped = "IDLE"
    /\ activeColor = DefaultColor
    /\ saveTimer = None
    /\ onSave = 0
    /\ savesSinceChange = -1

NextApp ==
    \/ AppMount
    \/ CreateDoc
    \/ OpenDoc
    \/ BackToHome
    \/ SelectPage
    \/ CreateNode
    \/ DeleteNode
    \/ SaveTimerFires
    \/ TextInput
    \/ SetTool
    \/ ContainerPointerDown

\* App with its Sidebar and the Editor of the active page.
SpecApp == InitApp /\ [][NextApp]_vars

C38_SaveWritesOwnPage ==
    [][ SaveTimerFires =>
          /\ state'[1].documents = state[1].documents
          /\ state'[1].fileNodes = state[1].fileNodes
          /\ DOMAIN state'[1].pages = DOMAIN state[1].pages \cup {activePageId}
          /\ \A p \in DOMAIN state[1].pages \ {activePageId} :
                state'[1].pages[p] = state[1].pages[p]
          /\ mountedFor = activePageId
          /\ state'[1].pages[activePageId].elements = elements
          /\ activePageId \in DOMAIN state[1].pages =>
                state'[1].pages[activePageId].pageId = state[1].pages[activePageId].pageId
      ]_vars

\* page p2 was selected after page p1, its text block was edited and the save
\* timer of its Editor fired: p2 holds what its Editor holds, p1 what it held
C38_Witness ==
    /\ state # None
    /\ activePageId = "p2"
    /\ savesSinceChange = 1
    /\ Len(elements) = 1
    /\ elements[1].content = "a"
    /\ state[1].pages["p2"].elements = elements
    /\ state[1].pages["p1"].elements = StoredPage

NextTree ==
    \/ AppMount
    \/ CreateDoc
    \/ CreateNode
    \/ SelectPage
    \/ DeleteNode

\* App with the operations of the home view's modal and of the Sidebar:
\* create-document, create-node, select-page and delete-node.
SpecTree == InitApp /\ [][NextTree]_vars

\* activePageId is null or the id of a PAGE node of the Sidebar's tree
ActiveInTree ==
    \/ activePageId = Null
    \/ /\ currentDocId # Null
       /\ activePageId \in TreeOf(state[1], currentDocId)
       /\ state[1].fileNodes[activePageId].type = "PAGE"

\* C39: after any sequence of create-document, create-node, select-page and
\* delete-node operations, activePageId is null or the id of a PAGE node that
\* is reachable through children lists from the root of the current
\* document: deleting the active page, or a folder that holds it, does not
\* leave the Editor open on a page that is no longer in the tree; and
\* deleting the root (a node without parentId) changes nothing.
C39_ActivePageInTree ==
    [][ /\ ActiveInTree'
        /\ state # None =>
              \A n \in DOMAIN state[1].fileNodes :
                 (state[1].fileNodes[n].parentId = Null /\ handleDeleteNode(n)) =>
                    UNCHANGED <<state, currentDocId, activePageId, storage>>
      ]_vars

\* App and the Editor with a save timer that fires when it stays pending: a
\* timeout set by setTimeout runs once its delay has passed.
SpecLive == InitApp /\ [][NextApp]_vars /\ WF_vars(SaveTimerFires)

\* C37: no edit is lost: every change of a page's element collection is
\* eventually passed to onSave, itself or a later collection of the same
\* Editor that supersedes it, also when the page is switched, the document
\* is closed or the Editor is unmounted in another way before the timer
\* fires; the obligation is open only while the run has events left.
C37_NoEditLost ==
    [](savesSinceChange = 0 =>
          <>(/\ savesSinceChange >= 1 \/ nEvents = MaxEvents
             /\ lost = {}))

====
